---- MODULE Spec2Model ----
(***************************************************************************)
(* Appointment intake and moderation service (emis_be).                    *)
(*                                                                         *)
(* The repository holds four builds of the Express application, all over   *)
(* the one mongoose schema of models/appointments.js:                      *)
(*   "captcha"  server.js 1-188        intake behind reCAPTCHA, email regex *)
(*   "early"    appointments.js 49-182 earlier intake behind reCAPTCHA     *)
(*   "admin"    server.js 189-461      intake + the five moderation routes *)
(*   "limited"  unnamed/part_001       intake behind express-rate-limit    *)
(* The variable `variant` says which build is running.                     *)
(*                                                                         *)
(* Strings are sequences of one-character strings, so that trim,           *)
(* toLowerCase, substring and the email regular expression are computed.   *)
(***************************************************************************)
EXTENDS Integers, Sequences, FiniteSets

(***************************************************************************)
(* Bounds of the model.                                                    *)
(***************************************************************************)
MaxInFlight == 1
MaxInserts == 2
MaxClock == 1
MaxOverLimit == 2
MaxOtherHits == 1

(***************************************************************************)
(* Program constants.                                                      *)
(***************************************************************************)
NameCut == 100
EmailCut == 100
PhoneCut == 20
MessageCut == 500
NameMaxlength == 100
EmailMaxlength == 100
PhoneMaxlength == 20
MessageMaxlength == 500
LimiterMax == 50

(***************************************************************************)
(* JavaScript strings.                                                     *)
(***************************************************************************)
Min(a, b) == IF a < b THEN a ELSE b

\* The alphabet of the model: the characters a string of this module can
\* hold, which are U+0001 to U+007F but the grave accent, and the characters
\* from U+0080 on whose code ends in 80 to FF (but the surrogates); and the
\* small letters outside these that toLowerCase makes of a capital within,
\* each written as the name of its code, "U+0253".
\*
\* Uppers are the characters of the alphabet that toLowerCase changes, in the
\* order of their codes, and Lowers what it makes of each (Unicode 15.1, the
\* version of the ICU of node 20.18: the lower-case mapping of UnicodeData;
\* no character of the alphabet has a longer one in SpecialCasing).
Uppers == <<"A","B","C","D","E","F","G","H","I","J","K","L","M","N","O","P",
            "Q","R","S","T","U","V","W","X","Y","Z","À","Á","Â","Ã","Ä","Å",
            "Æ","Ç","È","É","Ê","Ë","Ì","Í","Î","Ï","Ð","Ñ","Ò","Ó","Ô","Õ",
            "Ö","Ø","Ù","Ú","Û","Ü","Ý","Þ","Ɓ","Ƃ","Ƅ","Ɔ","Ƈ","Ɖ","Ɗ","Ƌ",
            "Ǝ","Ə","Ɛ","Ƒ","Ɠ","Ɣ","Ɩ","Ɨ","Ƙ","Ɯ","Ɲ","Ɵ","Ơ","Ƣ","Ƥ","Ʀ",
            "Ƨ","Ʃ","Ƭ","Ʈ","Ư","Ʊ","Ʋ","Ƴ","Ƶ","Ʒ","Ƹ","Ƽ","Ǆ","ǅ","Ǉ","ǈ",
            "Ǌ","ǋ","Ǎ","Ǐ","Ǒ","Ǔ","Ǖ","Ǘ","Ǚ","Ǜ","Ǟ","Ǡ","Ǣ","Ǥ","Ǧ","Ǩ",
            "Ǫ","Ǭ","Ǯ","Ǳ","ǲ","Ǵ","Ƕ","Ƿ","Ǹ","Ǻ","Ǽ","Ǿ","Ά","Έ","Ή","Ί",
            "Ό","Ύ","Ώ","Α","Β","Γ","Δ","Ε","Ζ","Η","Θ","Ι","Κ","Λ","Μ","Ν",
            "Ξ","Ο","Π","Ρ","Σ","Τ","Υ","Φ","Χ","Ψ","Ω","Ϊ","Ϋ","Ϗ","Ϙ","Ϛ",
            "Ϝ","Ϟ","Ϡ","Ϣ","Ϥ","Ϧ","Ϩ","Ϫ","Ϭ","Ϯ","ϴ","Ϸ","Ϲ","Ϻ","Ͻ","Ͼ",
            "Ͽ","Ҁ","Ҋ","Ҍ","Ҏ","Ґ","Ғ","Ҕ","Җ","Ҙ","Қ","Ҝ","Ҟ","Ҡ","Ң","Ҥ",
            "Ҧ","Ҩ","Ҫ","Ҭ","Ү","Ұ","Ҳ","Ҵ","Ҷ","Ҹ","Һ","Ҽ","Ҿ","Ӏ","Ӂ","Ӄ",
            "Ӆ","Ӈ","Ӊ","Ӌ","Ӎ","Ӑ","Ӓ","Ӕ","Ӗ","Ә","Ӛ","Ӝ","Ӟ","Ӡ","Ӣ","Ӥ",
            "Ӧ","Ө","Ӫ","Ӭ","Ӯ","Ӱ","Ӳ","Ӵ","Ӷ","Ӹ","Ӻ","Ӽ","Ӿ","Ⴀ","Ⴁ","Ⴂ",
            "Ⴃ","Ⴄ","Ⴅ","Ⴆ","Ⴇ","Ⴈ","Ⴉ","Ⴊ","Ⴋ","Ⴌ","Ⴍ","Ⴎ","Ⴏ","Ⴐ","Ⴑ","Ⴒ",
            "Ⴓ","Ⴔ","Ⴕ","Ⴖ","Ⴗ","Ⴘ","Ⴙ","Ⴚ","Ⴛ","Ⴜ","Ⴝ","Ⴞ","Ⴟ","Ⴠ","Ⴡ","Ⴢ",
            "Ⴣ","Ⴤ","Ⴥ","Ⴧ","Ⴭ","Ꭰ","Ꭱ","Ꭲ","Ꭳ","Ꭴ","Ꭵ","Ꭶ","Ꭷ","Ꭸ","Ꭹ","Ꭺ",
            "Ꭻ","Ꭼ","Ꭽ","Ꭾ","Ꭿ","Ꮀ","Ꮁ","Ꮂ","Ꮃ","Ꮄ","Ꮅ","Ꮆ","Ꮇ","Ꮈ","Ꮉ","Ꮊ",
            "Ꮋ","Ꮌ","Ꮍ","Ꮎ","Ꮏ","Ꮐ","Ꮑ","Ꮒ","Ꮓ","Ꮔ","Ꮕ","Ꮖ","Ꮗ","Ꮘ","Ꮙ","Ꮚ",
            "Ꮛ","Ꮜ","Ꮝ","Ꮞ","Ꮟ","Ꮠ","Ꮡ","Ꮢ","Ꮣ","Ꮤ","Ꮥ","Ꮦ","Ꮧ","Ꮨ","Ꮩ","Ꮪ",
            "Ꮫ","Ꮬ","Ꮭ","Ꮮ","Ꮯ","Ꮰ","Ꮱ","Ꮲ","Ꮳ","Ꮴ","Ꮵ","Ꮶ","Ꮷ","Ꮸ","Ꮹ","Ꮺ",
            "Ꮻ","Ꮼ","Ꮽ","Ꮾ","Ꮿ","Ᏸ","Ᏹ","Ᏺ","Ᏻ","Ᏼ","Ᏽ","Ა","Ბ","Გ","Დ","Ე",
            "Ვ","Ზ","Თ","Ი","Კ","Ლ","Მ","Ნ","Ო","Პ","Ჟ","Რ","Ს","Ტ","Უ","Ფ",
            "Ქ","Ღ","Ყ","Შ","Ჩ","Ც","Ძ","Წ","Ჭ","Ხ","Ჯ","Ჰ","Ჱ","Ჲ","Ჳ","Ჴ",
            "Ჵ","Ჶ","Ჷ","Ჸ","Ჹ","Ჺ","Ჽ","Ჾ","Ჿ","Ẁ","Ẃ","Ẅ","Ẇ","Ẉ","Ẋ","Ẍ",
            "Ẏ","Ẑ","Ẓ","Ẕ","ẞ","Ạ","Ả","Ấ","Ầ","Ẩ","Ẫ","Ậ","Ắ","Ằ","Ẳ","Ẵ",
            "Ặ","Ẹ","Ẻ","Ẽ","Ế","Ề","Ể","Ễ","Ệ","Ỉ","Ị","Ọ","Ỏ","Ố","Ồ","Ổ",
            "Ỗ","Ộ","Ớ","Ờ","Ở","Ỡ","Ợ","Ụ","Ủ","Ứ","Ừ","Ử","Ữ","Ự","Ỳ","Ỵ",
            "Ỷ","Ỹ","Ỻ","Ỽ","Ỿ","ᾈ","ᾉ","ᾊ","ᾋ","ᾌ","ᾍ","ᾎ","ᾏ","ᾘ","ᾙ","ᾚ",
            "ᾛ","ᾜ","ᾝ","ᾞ","ᾟ","ᾨ","ᾩ","ᾪ","ᾫ","ᾬ","ᾭ","ᾮ","ᾯ","Ᾰ","Ᾱ","Ὰ",
            "Ά","ᾼ","Ὲ","Έ","Ὴ","Ή","ῌ","Ῐ","Ῑ","Ὶ","Ί","Ῠ","Ῡ","Ὺ","Ύ","Ῥ",
            "Ὸ","Ό","Ὼ","Ώ","ῼ","Ↄ","Ⓐ","Ⓑ","Ⓒ","Ⓓ","Ⓔ","Ⓕ","Ⓖ","Ⓗ","Ⓘ","Ⓙ",
            "Ⓚ","Ⓛ","Ⓜ","Ⓝ","Ⓞ","Ⓟ","Ⓠ","Ⓡ","Ⓢ","Ⓣ","Ⓤ","Ⓥ","Ⓦ","Ⓧ","Ⓨ","Ⓩ",
            "Ⲁ","Ⲃ","Ⲅ","Ⲇ","Ⲉ","Ⲋ","Ⲍ","Ⲏ","Ⲑ","Ⲓ","Ⲕ","Ⲗ","Ⲙ","Ⲛ","Ⲝ","Ⲟ",
            "Ⲡ","Ⲣ","Ⲥ","Ⲧ","Ⲩ","Ⲫ","Ⲭ","Ⲯ","Ⲱ","Ⲳ","Ⲵ","Ⲷ","Ⲹ","Ⲻ","Ⲽ","Ⲿ",
            "Ⳁ","Ⳃ","Ⳅ","Ⳇ","Ⳉ","Ⳋ","Ⳍ","Ⳏ","Ⳑ","Ⳓ","Ⳕ","Ⳗ","Ⳙ","Ⳛ","Ⳝ","Ⳟ",
            "Ⳡ","Ⳣ","Ⳬ","Ⳮ","Ⳳ","Ꚁ","Ꚃ","Ꚅ","Ꚇ","Ꚉ","Ꚋ","Ꚍ","Ꚏ","Ꚑ","Ꚓ","Ꚕ",
            "Ꚗ","Ꚙ","Ꚛ","Ꞁ","Ꞃ","Ꞅ","Ꞇ","Ꞌ","Ɥ","Ꞑ","Ꞓ","Ꞗ","Ꞙ","Ꞛ","Ꞝ","Ꞟ",
            "Ꞡ","Ꞣ","Ꞥ","Ꞧ","Ꞩ","Ɦ","Ɜ","Ɡ","Ɬ","Ɪ","Ʞ","Ʇ","Ʝ","Ꭓ","Ꞵ","Ꞷ",
            "Ꞹ","Ꞻ","Ꞽ","Ꞿ","Ꟁ","Ꟃ","Ꞔ","Ʂ","Ᶎ","Ꟈ","Ꟊ","Ꟑ","Ꟗ","Ꟙ","Ꟶ">>
Lowers == <<"a","b","c","d","e","f","g","h","i","j","k","l","m","n","o","p",
            "q","r","s","t","u","v","w","x","y","z","à","á","â","ã","ä","å",
            "æ","ç","è","é","ê","ë","ì","í","î","ï","ð","ñ","ò","ó","ô","õ",
            "ö","ø","ù","ú","û","ü","ý","þ","U+0253","ƃ","ƅ","U+0254","ƈ","U+0256","U+0257","ƌ",
            "ǝ","U+0259","U+025B","ƒ","U+0260","U+0263","U+0269","U+0268","ƙ","U+026F","U+0272","U+0275","ơ","ƣ","ƥ","ʀ",
            "ƨ","ʃ","ƭ","ʈ","ư","ʊ","ʋ","ƴ","ƶ","ʒ","ƹ","ƽ","ǆ","ǆ","ǉ","ǉ",
            "ǌ","ǌ","ǎ","ǐ","ǒ","ǔ","ǖ","ǘ","ǚ","ǜ","ǟ","ǡ","ǣ","ǥ","ǧ","ǩ",
            "ǫ","ǭ","ǯ","ǳ","ǳ","ǵ","ƕ","ƿ","ǹ","ǻ","ǽ","ǿ","ά","έ","ή","ί",
            "ό","ύ","ώ","α","β","γ","δ","ε","ζ","η","θ","ι","κ","λ","μ","ν",
            "ξ","ο","π","ρ","σ","τ","υ","φ","χ","ψ","ω","ϊ","ϋ","ϗ","ϙ","ϛ",
            "ϝ","ϟ","ϡ","ϣ","ϥ","ϧ","ϩ","ϫ","ϭ","ϯ","θ","ϸ","ϲ","ϻ","U+037B","U+037C",
            "U+037D","ҁ","ҋ","ҍ","ҏ","ґ","ғ","ҕ","җ","ҙ","қ","ҝ","ҟ","ҡ","ң","ҥ",
            "ҧ","ҩ","ҫ","ҭ","ү","ұ","ҳ","ҵ","ҷ","ҹ","һ","ҽ","ҿ","ӏ","ӂ","ӄ",
            "ӆ","ӈ","ӊ","ӌ","ӎ","ӑ","ӓ","ӕ","ӗ","ә","ӛ","ӝ","ӟ","ӡ","ӣ","ӥ",
            "ӧ","ө","ӫ","ӭ","ӯ","ӱ","ӳ","ӵ","ӷ","ӹ","ӻ","ӽ","ӿ","U+2D00","U+2D01","U+2D02",
            "U+2D03","U+2D04","U+2D05","U+2D06","U+2D07","U+2D08","U+2D09","U+2D0A","U+2D0B","U+2D0C","U+2D0D","U+2D0E","U+2D0F","U+2D10","U+2D11","U+2D12",
            "U+2D13","U+2D14","U+2D15","U+2D16","U+2D17","U+2D18","U+2D19","U+2D1A","U+2D1B","U+2D1C","U+2D1D","U+2D1E","U+2D1F","U+2D20","U+2D21","U+2D22",
            "U+2D23","U+2D24","U+2D25","U+2D27","U+2D2D","U+AB70","U+AB71","U+AB72","U+AB73","U+AB74","U+AB75","U+AB76","U+AB77","U+AB78","U+AB79","U+AB7A",
            "U+AB7B","U+AB7C","U+AB7D","U+AB7E","U+AB7F","ꮀ","ꮁ","ꮂ","ꮃ","ꮄ","ꮅ","ꮆ","ꮇ","ꮈ","ꮉ","ꮊ",
            "ꮋ","ꮌ","ꮍ","ꮎ","ꮏ","ꮐ","ꮑ","ꮒ","ꮓ","ꮔ","ꮕ","ꮖ","ꮗ","ꮘ","ꮙ","ꮚ",
            "ꮛ","ꮜ","ꮝ","ꮞ","ꮟ","ꮠ","ꮡ","ꮢ","ꮣ","ꮤ","ꮥ","ꮦ","ꮧ","ꮨ","ꮩ","ꮪ",
            "ꮫ","ꮬ","ꮭ","ꮮ","ꮯ","ꮰ","ꮱ","ꮲ","ꮳ","ꮴ","ꮵ","ꮶ","ꮷ","ꮸ","ꮹ","ꮺ",
            "ꮻ","ꮼ","ꮽ","ꮾ","ꮿ","ᏸ","ᏹ","ᏺ","ᏻ","ᏼ","ᏽ","ა","ბ","გ","დ","ე",
            "ვ","ზ","თ","ი","კ","ლ","მ","ნ","ო","პ","ჟ","რ","ს","ტ","უ","ფ",
            "ქ","ღ","ყ","შ","ჩ","ც","ძ","წ","ჭ","ხ","ჯ","ჰ","ჱ","ჲ","ჳ","ჴ",
            "ჵ","ჶ","ჷ","ჸ","ჹ","ჺ","ჽ","ჾ","ჿ","ẁ","ẃ","ẅ","ẇ","ẉ","ẋ","ẍ",
            "ẏ","ẑ","ẓ","ẕ","ß","ạ","ả","ấ","ầ","ẩ","ẫ","ậ","ắ","ằ","ẳ","ẵ",
            "ặ","ẹ","ẻ","ẽ","ế","ề","ể","ễ","ệ","ỉ","ị","ọ","ỏ","ố","ồ","ổ",
            "ỗ","ộ","ớ","ờ","ở","ỡ","ợ","ụ","ủ","ứ","ừ","ử","ữ","ự","ỳ","ỵ",
            "ỷ","ỹ","ỻ","ỽ","ỿ","ᾀ","ᾁ","ᾂ","ᾃ","ᾄ","ᾅ","ᾆ","ᾇ","ᾐ","ᾑ","ᾒ",
            "ᾓ","ᾔ","ᾕ","ᾖ","ᾗ","ᾠ","ᾡ","ᾢ","ᾣ","ᾤ","ᾥ","ᾦ","ᾧ","ᾰ","ᾱ","U+1F70",
            "U+1F71","ᾳ","U+1F72","U+1F73","U+1F74","U+1F75","ῃ","ῐ","ῑ","U+1F76","U+1F77","ῠ","ῡ","U+1F7A","U+1F7B","ῥ",
            "U+1F78","U+1F79","U+1F7C","U+1F7D","ῳ","ↄ","ⓐ","ⓑ","ⓒ","ⓓ","ⓔ","ⓕ","ⓖ","ⓗ","ⓘ","ⓙ",
            "ⓚ","ⓛ","ⓜ","ⓝ","ⓞ","ⓟ","ⓠ","ⓡ","ⓢ","ⓣ","ⓤ","ⓥ","ⓦ","ⓧ","ⓨ","ⓩ",
            "ⲁ","ⲃ","ⲅ","ⲇ","ⲉ","ⲋ","ⲍ","ⲏ","ⲑ","ⲓ","ⲕ","ⲗ","ⲙ","ⲛ","ⲝ","ⲟ",
            "ⲡ","ⲣ","ⲥ","ⲧ","ⲩ","ⲫ","ⲭ","ⲯ","ⲱ","ⲳ","ⲵ","ⲷ","ⲹ","ⲻ","ⲽ","ⲿ",
            "ⳁ","ⳃ","ⳅ","ⳇ","ⳉ","ⳋ","ⳍ","ⳏ","ⳑ","ⳓ","ⳕ","ⳗ","ⳙ","ⳛ","ⳝ","ⳟ",
            "ⳡ","ⳣ","ⳬ","ⳮ","ⳳ","ꚁ","ꚃ","ꚅ","ꚇ","ꚉ","ꚋ","ꚍ","ꚏ","ꚑ","ꚓ","ꚕ",
            "ꚗ","ꚙ","ꚛ","ꞁ","ꞃ","ꞅ","ꞇ","ꞌ","U+0265","ꞑ","ꞓ","ꞗ","ꞙ","ꞛ","ꞝ","ꞟ",
            "ꞡ","ꞣ","ꞥ","ꞧ","ꞩ","U+0266","U+025C","U+0261","U+026C","U+026A","ʞ","ʇ","ʝ","U+AB53","ꞵ","ꞷ",
            "ꞹ","ꞻ","ꞽ","ꞿ","ꟁ","ꟃ","ꞔ","ʂ","ᶎ","ꟈ","ꟊ","ꟑ","ꟗ","ꟙ","ꟶ">>

\* The cased letters (property Cased of Unicode) that are not case-ignorable:
\* the capitals, their small letters, and the letters with no other case
Cased ==
  {Uppers[i] : i \in DOMAIN Uppers} \cup {Lowers[i] : i \in DOMAIN Lowers} \cup
    {"ª","µ","º","ÿ","ƀ","ƍ","ƚ","ƛ","ƞ","ƪ","ƫ","ƺ","ƾ","ǰ","ʁ","ʄ",
     "ʅ","ʆ","ʉ","ʌ","ʍ","ʎ","ʏ","ʐ","ʑ","ʓ","ʕ","ʖ","ʗ","ʘ","ʙ","ʚ",
     "ʛ","ʜ","ʟ","ʠ","ʡ","ʢ","ʣ","ʤ","ʥ","ʦ","ʧ","ʨ","ʩ","ʪ","ʫ","ʬ",
     "ʭ","ʮ","ʯ","ΐ","ΰ","ς","ϐ","ϑ","ϒ","ϓ","ϔ","ϕ","ϖ","ϰ","ϱ","ϳ",
     "ϵ","ϼ","ր","ց","ւ","փ","ք","օ","ֆ","և","ֈ","ᲀ","ᲁ","ᲂ","ᲃ","ᲄ",
     "ᲅ","ᲆ","ᲇ","ᲈ","ᶀ","ᶁ","ᶂ","ᶃ","ᶄ","ᶅ","ᶆ","ᶇ","ᶈ","ᶉ","ᶊ","ᶋ",
     "ᶌ","ᶍ","ᶏ","ᶐ","ᶑ","ᶒ","ᶓ","ᶔ","ᶕ","ᶖ","ᶗ","ᶘ","ᶙ","ᶚ","ẖ","ẗ",
     "ẘ","ẙ","ẚ","ẛ","ẜ","ẝ","ẟ","ᾲ","ᾴ","ᾶ","ᾷ","ι","ῂ","ῄ","ῆ","ῇ",
     "ῒ","ΐ","ῖ","ῗ","ῢ","ΰ","ῤ","ῦ","ῧ","ῲ","ῴ","ῶ","ῷ","ⳤ","ꞎ","ꞕ",
     "ꞯ","ꟓ","ꟕ","ꟺ"}

\* The case-ignorable characters (property Case_Ignorable of Unicode):
\* apostrophe, full stop, colon, the accents and marks that stand alone or
\* combine, the modifier letters, the soft hyphen and other format characters
CaseIgnorable ==
    {"'",".",":","^","¨","­","¯","´","·","¸","ʰ","ʱ","ʲ","ʳ","ʴ","ʵ",
     "ʶ","ʷ","ʸ","ʹ","ʺ","ʻ","ʼ","ʽ","ʾ","ʿ","ˀ","ˁ","˂","˃","˄","˅",
     "ˆ","ˇ","ˈ","ˉ","ˊ","ˋ","ˌ","ˍ","ˎ","ˏ","ː","ˑ","˒","˓","˔","˕",
     "˖","˗","˘","˙","˚","˛","˜","˝","˞","˟","ˠ","ˡ","ˢ","ˣ","ˤ","˥",
     "˦","˧","˨","˩","˪","˫","ˬ","˭","ˮ","˯","˰","˱","˲","˳","˴","˵",
     "˶","˷","˸","˹","˺","˻","˼","˽","˾","˿","΄","΅","·","҃","҄","҅",
     "҆","҇","҈","҉","֑","֒","֓","֔","֕","֖","֗","֘","֙","֚","֛","֜",
     "֝","֞","֟","֠","֡","֢","֣","֤","֥","֦","֧","֨","֩","֪","֫","֬",
     "֭","֮","֯","ְ","ֱ","ֲ","ֳ","ִ","ֵ","ֶ","ַ","ָ","ֹ","ֺ","ֻ","ּ",
     "ֽ","ֿ","ׁ","ׂ","ׄ","ׅ","ׇ","״","ۖ","ۗ","ۘ","ۙ","ۚ","ۛ","ۜ","۝",
     "۟","۠","ۡ","ۢ","ۣ","ۤ","ۥ","ۦ","ۧ","ۨ","۪","۫","۬","ۭ","ަ","ާ",
     "ި","ީ","ު","ޫ","ެ","ޭ","ޮ","ޯ","ް","߫","߬","߭","߮","߯","߰","߱",
     "߲","߳","ߴ","ߵ","ߺ","߽","࢈","࢐","࢑","࢘","࢙","࢚","࢛","࢜","࢝","࢞",
     "࢟","ࣉ","࣊","࣋","࣌","࣍","࣎","࣏","࣐","࣑","࣒","࣓","ࣔ","ࣕ","ࣖ","ࣗ",
     "ࣘ","ࣙ","ࣚ","ࣛ","ࣜ","ࣝ","ࣞ","ࣟ","࣠","࣡","࣢","ࣣ","ࣤ","ࣥ","ࣦ","ࣧ",
     "ࣨ","ࣩ","࣪","࣫","࣬","࣭","࣮","࣯","ࣰ","ࣱ","ࣲ","ࣳ","ࣴ","ࣵ","ࣶ","ࣷ",
     "ࣸ","ࣹ","ࣺ","ࣻ","ࣼ","ࣽ","ࣾ","ࣿ","ঁ","়","ু","ূ","ৃ","ৄ","্","ৢ",
     "ৣ","৾","ઁ","ં","઼","ુ","ૂ","ૃ","ૄ","ૅ","ે","ૈ","્","ૢ","ૣ","ૺ",
     "ૻ","ૼ","૽","૾","૿","ஂ","ீ","்","ಁ","಼","ಿ","ೆ","ೌ","್","ೢ","ೣ",
     "ඁ","්","ි","ී","ු","ූ","ັ","ິ","ີ","ຶ","ື","ຸ","ູ","຺","ົ","ຼ",
     "ໆ","່","້","໊","໋","໌","ໍ","໎","ྀ","ཱྀ","ྂ","ྃ","྄","྆","྇","ྍ",
     "ྎ","ྏ","ྐ","ྑ","ྒ","ྒྷ","ྔ","ྕ","ྖ","ྗ","ྙ","ྚ","ྛ","ྜ","ྜྷ","ྞ",
     "ྟ","ྠ","ྡ","ྡྷ","ྣ","ྤ","ྥ","ྦ","ྦྷ","ྨ","ྩ","ྪ","ྫ","ྫྷ","ྭ","ྮ",
     "ྯ","ྰ","ྱ","ྲ","ླ","ྴ","ྵ","ྶ","ྷ","ྸ","ྐྵ","ྺ","ྻ","ྼ","࿆","ႂ",
     "ႅ","ႆ","ႍ","ႝ","ჼ","឴","឵","ិ","ី","ឹ","ឺ","ុ","ូ","ួ","ំ","៉",
     "៊","់","៌","៍","៎","៏","័","៑","្","៓","ៗ","៝","ᢅ","ᢆ","ᢩ","ᪧ",
     "᪰","᪱","᪲","᪳","᪴","᪵","᪶","᪷","᪸","᪹","᪺","᪻","᪼","᪽","᪾","ᪿ",
     "ᫀ","᫁","᫂","᫃","᫄","᫅","᫆","᫇","᫈","᫉","᫊","᫋","ᫌ","ᫍ","ᫎ","ᮀ",
     "ᮁ","ᮢ","ᮣ","ᮤ","ᮥ","ᮨ","ᮩ","᮫","ᮬ","ᮭ","᯦","ᯨ","ᯩ","ᯭ","ᯯ","ᯰ",
     "ᯱ","᳐","᳑","᳒","᳔","᳕","᳖","᳗","᳘","᳙","᳚","᳛","᳜","᳝","᳞","᳟",
     "᳠","᳢","᳣","᳤","᳥","᳦","᳧","᳨","᳭","᳴","᳸","᳹","ᶛ","ᶜ","ᶝ","ᶞ",
     "ᶟ","ᶠ","ᶡ","ᶢ","ᶣ","ᶤ","ᶥ","ᶦ","ᶧ","ᶨ","ᶩ","ᶪ","ᶫ","ᶬ","ᶭ","ᶮ",
     "ᶯ","ᶰ","ᶱ","ᶲ","ᶳ","ᶴ","ᶵ","ᶶ","ᶷ","ᶸ","ᶹ","ᶺ","ᶻ","ᶼ","ᶽ","ᶾ",
     "ᶿ","᷀","᷁","᷂","᷃","᷄","᷅","᷆","᷇","᷈","᷉","᷊","᷋","᷌","᷍","᷎",
     "᷏","᷐","᷑","᷒","ᷓ","ᷔ","ᷕ","ᷖ","ᷗ","ᷘ","ᷙ","ᷚ","ᷛ","ᷜ","ᷝ","ᷞ",
     "ᷟ","ᷠ","ᷡ","ᷢ","ᷣ","ᷤ","ᷥ","ᷦ","ᷧ","ᷨ","ᷩ","ᷪ","ᷫ","ᷬ","ᷭ","ᷮ",
     "ᷯ","ᷰ","ᷱ","ᷲ","ᷳ","ᷴ","᷵","᷶","᷷","᷸","᷹","᷺","᷻","᷼","᷽","᷾",
     "᷿","᾽","᾿","῀","῁","῍","῎","῏","῝","῞","῟","῭","΅","`","´","῾",
     "ₐ","ₑ","ₒ","ₓ","ₔ","ₕ","ₖ","ₗ","ₘ","ₙ","ₚ","ₛ","ₜ","⃐","⃑","⃒",
     "⃓","⃔","⃕","⃖","⃗","⃘","⃙","⃚","⃛","⃜","⃝","⃞","⃟","⃠","⃡","⃢",
     "⃣","⃤","⃥","⃦","⃧","⃨","⃩","⃪","⃫","⃬","⃭","⃮","⃯","⃰","⳯","⳰",
     "⳱","ⷠ","ⷡ","ⷢ","ⷣ","ⷤ","ⷥ","ⷦ","ⷧ","ⷨ","ⷩ","ⷪ","ⷫ","ⷬ","ⷭ","ⷮ",
     "ⷯ","ⷰ","ⷱ","ⷲ","ⷳ","ⷴ","ⷵ","ⷶ","ⷷ","ⷸ","ⷹ","ⷺ","ⷻ","ⷼ","ⷽ","ⷾ",
     "ⷿ","゙","゚","゛","゜","ゝ","ゞ","ー","ヽ","ヾ","ꓸ","ꓹ","ꓺ","ꓻ","ꓼ","ꓽ",
     "ꚜ","ꚝ","ꚞ","ꚟ","꛰","꛱","ꞈ","꞉","꞊","ꟲ","ꟳ","ꟴ","ꟸ","ꟹ","꣄","ꣅ",
     "꣠","꣡","꣢","꣣","꣤","꣥","꣦","꣧","꣨","꣩","꣪","꣫","꣬","꣭","꣮","꣯",
     "꣰","꣱","ꣿ","ꦀ","ꦁ","ꦂ","꦳","ꦶ","ꦷ","ꦸ","ꦹ","ꦼ","ꦽ","ꧏ","ꧥ","ꧦ",
     "ꪰ","ꪲ","ꪳ","ꪴ","ꪷ","ꪸ","ꪾ","꪿","꫁","ꫝ","ꫬ","ꫭ","ꫳ","ꫴ","꫶","ꯥ",
     "ꯨ","꯭","﮲","﮳","﮴","﮵","﮶","﮷","﮸","﮹","﮺","﮻","﮼","﮽","﮾","﮿",
     "﯀","﯁","﯂","﻿","ﾞ","ﾟ","￣","￹","￺","￻"}

Digits == <<"0","1","2","3","4","5","6","7","8","9">>

InSeq(c, s) == \E i \in 1..Len(s) : s[i] = c
IndexIn(c, s) == CHOOSE i \in 1..Len(s) : s[i] = c

\* WhiteSpace and LineTerminator of ECMAScript, as String.prototype.trim and
\* the class \s take them: tab, line feed, vertical tab, form feed, carriage
\* return, space, no-break space, ogham space mark and U+FEFF.  (The spaces
\* U+2000 to U+200A, U+2028, U+2029, U+202F, U+205F and U+3000 cannot be
\* written in a string of this module.)
IsSpace(c) == c \in {"\t", "\n", "", "\f", "\r", " ", " ", " ", "﻿"}

\* What toLowerCase makes of each capital
LowerCase == [c \in {Uppers[i] : i \in DOMAIN Uppers} |-> Lowers[IndexIn(c, Uppers)]]

toLowerCaseChar(c) == IF c \in DOMAIN LowerCase THEN LowerCase[c] ELSE c

\* s.toLowerCase(): letter by letter, but for a capital sigma at the end of a
\* word, which becomes the final sigma (Final_Sigma of SpecialCasing): a
\* cased letter stands before it and none after it, case-ignorable characters
\* in between being passed over
toLowerCase(s) ==
  LET Passed(i, j) == \A k \in (i + 1)..(j - 1) : s[k] \in CaseIgnorable
      Final(i) == /\ \E j \in 1..(i - 1) : s[j] \in Cased /\ Passed(j, i)
                  /\ ~\E j \in (i + 1)..Len(s) : s[j] \in Cased /\ Passed(i, j)
  IN [i \in 1..Len(s) |-> IF s[i] = "Σ" /\ Final(i) THEN "ς" ELSE toLowerCaseChar(s[i])]

trim(s) ==
  LET keep == {i \in 1..Len(s) : ~IsSpace(s[i])}
  IN IF keep = {} THEN <<>>
     ELSE SubSeq(s, CHOOSE i \in keep : \A j \in keep : i <= j,
                    CHOOSE i \in keep : \A j \in keep : j <= i)

\* s.substring(0, n)
substring(s, n) == SubSeq(s, 1, Min(n, Len(s)))

Rep(c, n) == [i \in 1..n |-> c]

(***************************************************************************)
(* JavaScript values of a request body: undefined, a string, or a number   *)
(* (given by its decimal digits).                                          *)
(***************************************************************************)
Undef == [t |-> "undefined", v |-> <<>>]
Str(s) == [t |-> "string", v |-> s]
Num(digits) == [t |-> "number", v |-> digits]

\* !x is false
Truthy(x) == (x.t = "string" /\ x.v # <<>>) \/ (x.t = "number" /\ x.v # <<"0">>)

\* a || b
OrElse(a, b) == IF Truthy(a) THEN a ELSE b

\* /^[^\s@]+@[^\s@]+\.[^\s@]+$/ on a string: one '@', no white space, a
\* non-empty local part, and after the '@' a '.' with a character on each side
emailRegexMatches(s) ==
  /\ \A i \in 1..Len(s) : ~IsSpace(s[i])
  /\ Cardinality({i \in 1..Len(s) : s[i] = "@"}) = 1
  /\ LET at == IndexIn("@", s)
     IN /\ at > 1
        /\ \E i \in (at + 2)..(Len(s) - 1) : s[i] = "."

\* emailRegex.test(x): the argument is taken as String(x)
emailRegexTest(x) ==
  emailRegexMatches(IF x.t = "undefined" THEN <<"u","n","d","e","f","i","n","e","d">> ELSE x.v)

IsDigit(c) == InSeq(c, Digits)
DigitVal(c) == IndexIn(c, Digits) - 1

(***************************************************************************)
(* Dates.  An instant is a day number (days since 1 January 2020, negative *)
(* before it) and the milliseconds into that day; the image sets no TZ, so *)
(* local time is UTC.                                                      *)
(***************************************************************************)
Years == 2020..2030
MsPerDay == 24 * 60 * 60 * 1000

IsLeap(y) == (y % 4 = 0 /\ y % 100 # 0) \/ y % 400 = 0
DaysInMonth(y, m) ==
  IF m = 2 THEN (IF IsLeap(y) THEN 29 ELSE 28)
  ELSE IF m \in {4, 6, 9, 11} THEN 30 ELSE 31

\* The day number of 1 January of year y, for any year of the proleptic
\* Gregorian calendar (year 0 and the years before it included)
YearStart(y) ==
  LET DaysFromYear0(n) ==
        365 * n + ((n + 3) \div 4) - ((n + 99) \div 100) + ((n + 399) \div 400)
  IN DaysFromYear0(y) - DaysFromYear0(2020)

RECURSIVE MonthStart(_, _)
MonthStart(y, m) == IF m <= 1 THEN 0 ELSE MonthStart(y, m - 1) + DaysInMonth(y, m - 1)

\* The day number of year y, month m (1..12), day d; d may run past the
\* month's end, as the Date setters let it
DayNumber(y, m, d) == YearStart(y) + MonthStart(y, m) + d - 1

YearOf(n) == CHOOSE y \in Years : YearStart(y) <= n /\ n < YearStart(y + 1)
MonthOf(n) ==
  LET y == YearOf(n)
  IN CHOOSE m \in 1..12 : /\ DayNumber(y, m, 1) <= n
                          /\ n < DayNumber(y, m, 1) + DaysInMonth(y, m)
DateOf(n) == n - DayNumber(YearOf(n), MonthOf(n), 1) + 1

Instant(day, ms) == [day |-> day, ms |-> ms]
Before(a, b) == a.day < b.day \/ (a.day = b.day /\ a.ms <= b.ms)

\* startDate.setHours(0, 0, 0, 0)
startOfDay(t) == Instant(t.day, 0)
\* endDate.setHours(23, 59, 59, 999)
endOfDay(t) == Instant(t.day, MsPerDay - 1)
\* startDate.setDate(startDate.getDate() - 7)
weekBack(t) == Instant(t.day - 7, t.ms)
\* startDate.setMonth(startDate.getMonth() - 1)
monthBack(t) ==
  LET y == YearOf(t.day)
      m == MonthOf(t.day)
  IN Instant(IF m = 1 THEN DayNumber(y - 1, 12, DateOf(t.day))
             ELSE DayNumber(y, m - 1, DateOf(t.day)), t.ms)
\* startDate.setFullYear(startDate.getFullYear() - 1)
yearBack(t) ==
  Instant(DayNumber(YearOf(t.day) - 1, MonthOf(t.day), DateOf(t.day)), t.ms)

\* A time value is a date when it lies within 100,000,000 days of 1 January
\* 1970 (TimeClip)
IsTimeValue(t) ==
  LET e == t.day - YearStart(1970)
  IN /\ e >= 0 - 100000000
     /\ e < 100000000 \/ (e = 100000000 /\ t.ms = 0)

NoDate == [ok |-> FALSE, t |-> Instant(0, 0)]

\* new Date(n) for the number of milliseconds whose digits are ds, negated if
\* neg: the instant so many milliseconds from 1 January 1970
newDateOfNumber(ds, neg) ==
  LET RECURSIVE divide(_)
      \* the quotient (kept below 200,000,000) and the remainder of the
      \* number written by the first k digits, divided by the ms of a day
      divide(k) ==
        IF k = 0 THEN <<0, 0>>
        ELSE LET p == divide(k - 1)
                 r == 10 * p[2] + DigitVal(ds[k])
             IN <<IF p[1] >= 20000000 THEN 200000000 ELSE 10 * p[1] + (r \div MsPerDay),
                  r % MsPerDay>>
      qr == divide(Len(ds))
      t == IF ~neg THEN Instant(YearStart(1970) + qr[1], qr[2])
           ELSE IF qr[2] = 0 THEN Instant(YearStart(1970) - qr[1], 0)
           ELSE Instant(YearStart(1970) - qr[1] - 1, MsPerDay - qr[2])
  IN IF IsTimeValue(t) THEN [ok |-> TRUE, t |-> t] ELSE NoDate

RECURSIVE Tokens(_)
\* The tokens the date parser cuts a string into: a number (its value, of the
\* first nine significant digits, and the count of its digits), a word of
\* characters from 'A' up that are no white space (its first three
\* characters, the ASCII capitals in lower case, and its length), a white
\* space character, or a symbol, which is any other character below 'A': a
\* punctuation mark or a control character; text in parentheses is one symbol
Tokens(s) ==
  LET IsWordChar(c) ==
        /\ ~IsDigit(c) /\ ~IsSpace(c)
        /\ c \notin {"!", "\"", "#", "$", "%", "&", "'", "(", ")", "*", "+", ",", "-",
                     ".", "/", ":", ";", "<", "=", ">", "?", "@",
                     "", "", "", "", "", "", "", "", "", "", "", "", "", "", "", "", "", "", "", "", "", "", "", "", "", ""}
      \* (the last row: the control characters U+0001 to U+0008 and U+000E
      \* to U+001F).  AsciiAlphaToLower is c | 0x20, which makes of no other
      \* character than an ASCII capital a letter of a keyword
      AsciiAlphaToLower(c) == IF \E k \in 1..26 : Uppers[k] = c THEN toLowerCaseChar(c) ELSE c
      \* the length of the longest prefix of s of characters that satisfy P
      Span(P(_)) == CHOOSE n \in 0..Len(s) : /\ \A i \in 1..n : P(s[i])
                                             /\ n = Len(s) \/ ~P(s[n + 1])
      RECURSIVE valueOf(_, _)
      valueOf(i, j) == IF i > j THEN 0 ELSE 10 * valueOf(i, j - 1) + DigitVal(s[j])
      IsZero(c) == c = "0"
      RECURSIVE closing(_, _)
      \* the position after the parenthesis that closes the one at 1
      closing(i, balance) ==
        IF i > Len(s) THEN i
        ELSE LET b == IF s[i] = "(" THEN balance + 1
                      ELSE IF s[i] = ")" THEN balance - 1 ELSE balance
             IN IF b = 0 THEN i + 1 ELSE closing(i + 1, b)
      Then(tok, n) == <<tok>> \o Tokens(SubSeq(s, n + 1, Len(s)))
  IN IF s = <<>> THEN <<>>
     ELSE IF IsDigit(s[1])
       THEN LET n == Span(IsDigit)
                z == Span(IsZero)
            IN Then([k |-> "num", n |-> valueOf(z + 1, Min(z + 9, n)), len |-> n, w |-> <<>>], n)
     ELSE IF IsWordChar(s[1])
       THEN LET n == Span(IsWordChar)
            IN Then([k |-> "word", n |-> 0, len |-> n,
                     w |-> [i \in 1..Min(3, n) |-> AsciiAlphaToLower(s[i])]], n)
     ELSE IF IsSpace(s[1]) THEN Then([k |-> "ws", n |-> 0, len |-> 1, w |-> <<>>], 1)
     ELSE IF s[1] = "("
       THEN Then([k |-> "sym", n |-> 0, len |-> closing(1, 0) - 1, w |-> <<"(">>],
                 closing(1, 0) - 1)
     ELSE Then([k |-> "sym", n |-> 0, len |-> 1, w |-> <<s[1]>>], 1)

\* new Date(s) for a string s, as V8 parses it: whether the date is valid, and
\* its instant.  The ES5 format YYYY[-MM[-DD]][THH:mm[:ss[.sss]][Z|+hh:mm]]
\* is tried first (a sign and six digits may stand for the year); where it
\* stops before the 'T', the legacy parser goes on with what is left.  There,
\* numbers are date components (or the time of day, around ':'), a word that
\* starts like a month name is the month, a time zone name or a sign after
\* the time gives the offset, and other words are allowed before the first
\* number only.  A date-only ES5 string is UTC, a string with no zone is
\* local time.
newDate(s) ==
  LET Parse(ts) ==
    LET None == 0 - 1
        IsNum(j) == j <= Len(ts) /\ ts[j].k = "num"
        Fixed(j, len) == IsNum(j) /\ ts[j].len = len
        Sym(j, c) == j <= Len(ts) /\ ts[j].k = "sym" /\ ts[j].w = <<c>>
        Word(j, w) == j <= Len(ts) /\ ts[j].k = "word" /\ ts[j].len = Len(w) /\ ts[j].w = w
        MonthNames ==
          <<<<"j","a","n">>, <<"f","e","b">>, <<"m","a","r">>, <<"a","p","r">>,
            <<"m","a","y">>, <<"j","u","n">>, <<"j","u","l">>, <<"a","u","g">>,
            <<"s","e","p">>, <<"o","c","t">>, <<"n","o","v">>, <<"d","e","c">>>>
        \* the time zone names and their hours from UTC
        ZoneNames ==
          {<<<<"u","t">>, 0>>, <<<<"u","t","c">>, 0>>, <<<<"g","m","t">>, 0>>,
           <<<<"z">>, 0>>, <<<<"e","s","t">>, 0 - 5>>, <<<<"e","d","t">>, 0 - 4>>,
           <<<<"c","s","t">>, 0 - 6>>, <<<<"c","d","t">>, 0 - 5>>,
           <<<<"m","s","t">>, 0 - 7>>, <<<<"m","d","t">>, 0 - 6>>,
           <<<<"p","s","t">>, 0 - 8>>, <<<<"p","d","t">>, 0 - 7>>}
        IsMonthWord(j) == ts[j].k = "word" /\ ts[j].len >= 3 /\ InSeq(ts[j].w, MonthNames)
        IsZoneWord(j) == \E z \in ZoneNames : Word(j, z[1])
        ZoneOf(j) == (CHOOSE z \in ZoneNames : z[1] = ts[j].w)[2]
        IsMonth(n) == n \in 1..12
        IsDay(n) == n \in 1..31
        Pad(q, n, x) == q \o [i \in 1..(n - Len(q)) |-> x]
        \* ReadMilliseconds: the first three digits of a fraction
        Milliseconds(tok) ==
          LET RECURSIVE cut(_, _)
              cut(n, len) == IF len <= 3 THEN n ELSE cut(n \div 10, len - 1)
          IN IF tok.len = 1 THEN tok.n * 100
             ELSE IF tok.len = 2 THEN tok.n * 10
             ELSE cut(tok.n, Min(tok.len, 9))
        \* The composers when nothing is read: the date components, the month
        \* given by name, the time components and the hours 'pm' adds, the
        \* sign, hour and minute of the offset, and whether a number was read
        Empty == [comps |-> <<>>, named |-> None, time |-> <<>>, hoff |-> None,
                  sign |-> 0, hour |-> None, minute |-> None, read |-> FALSE]
        SetZone(c, hours) ==
          [c EXCEPT !.sign = IF hours < 0 THEN 0 - 1 ELSE 1,
                    !.hour = IF hours < 0 THEN 0 - hours ELSE hours, !.minute = 0]
        TimeExpecting(c, n) ==
          \/ Len(c.time) = 1 /\ n <= 59
          \/ Len(c.time) = 2 /\ n <= 59
          \/ Len(c.time) = 3 /\ n <= 999
        ZoneExpecting(c, n) == c.hour # None /\ c.minute = None /\ n <= 59
        \* What the parser ends with: it gave up, it read the whole string
        \* (as the ES5 format or not), or the ES5 format stopped before token
        \* i and the legacy parser goes on from there
        Failed == [k |-> "failed"]
        Done(c, iso) == [k |-> "done", c |-> c, iso |-> iso]
        GoesOn(i, c) == [k |-> "legacy", i |-> i, c |-> [c EXCEPT !.read = c.comps # <<>>]]
        \* DayComposer::Write, TimeComposer::Write, TimeZoneComposer::Write
        \* on the components d and the time of day t, each filled up, and the
        \* time value made of what they give
        Write(c, iso, d, t) ==
          LET ymd == IF c.named = None
                       THEN IF iso \/ ~IsDay(d[1]) THEN d ELSE <<d[3], d[1], d[2]>>
                     ELSE IF ~IsDay(d[1]) THEN <<d[1], c.named, d[2]>>
                     ELSE <<d[2], c.named, d[1]>>
              year == IF iso \/ ymd[1] \notin 0..99 THEN ymd[1]
                      ELSE IF ymd[1] <= 49 THEN ymd[1] + 2000 ELSE ymd[1] + 1900
              hour == IF c.hoff = None THEN t[1] ELSE (t[1] % 12) + c.hoff
              ms == ((hour * 60 + t[2]) * 60 + t[3]) * 1000 + t[4]
              \* hour_ * 3600 + minute_ * 60 in 32 bits, as the 16-bit halves
              h == IF c.hour = None THEN 0 ELSE c.hour
              m == IF c.minute = None THEN 0 ELSE c.minute
              low == (h % 65536) * 3600 + m * 60
              high == ((h \div 65536) * 3600 + (low \div 65536)) % 65536
              seconds == high * 65536 + (low % 65536)
              \* the minutes and the seconds of the day, less the offset
              u == (ms \div 1000) - c.sign * (seconds % 86400)
              day == DayNumber(year, ymd[2], ymd[3]) - c.sign * (seconds \div 86400)
                       + (u \div 86400)
              Clip(at) == IF IsTimeValue(at) THEN [ok |-> TRUE, t |-> at] ELSE NoDate
          IN IF c.comps = <<>> \/ ~IsMonth(ymd[2]) \/ ~IsDay(ymd[3]) THEN NoDate
             ELSE IF c.hoff # None /\ t[1] > 12 THEN NoDate
             ELSE IF ~ \/ hour <= 23 /\ t[2] <= 59 /\ t[3] <= 59 /\ t[4] <= 999
                       \/ hour = 24 /\ t[2] = 0 /\ t[3] = 0 /\ t[4] = 0
               THEN NoDate
             ELSE IF c.sign # 0 /\ high >= 32768 THEN NoDate
             ELSE IF year > 300000 \/ year < 0 - 300000 THEN NoDate
             ELSE Clip(Instant(day, (u % 86400) * 1000 + (ms % 1000)))
        RECURSIVE Legacy(_, _)
        \* the legacy parser from token i on, the composers being c
        Legacy(i, c) ==
          IF i > Len(ts) THEN Done(c, FALSE)
          ELSE IF IsNum(i)
            THEN LET n == ts[i].n
                     r == [c EXCEPT !.read = TRUE]
                     j == IF Sym(i + 1, ".") THEN i + 2 ELSE i + 1
                 IN IF Sym(i + 1, ":") /\ Sym(i + 2, ":")
                      THEN IF c.time # <<>> THEN Failed
                           ELSE Legacy(i + 3, [r EXCEPT !.time = <<n, 0>>])
                    ELSE IF Sym(i + 1, ":")
                      THEN IF Len(c.time) = 4 THEN Failed
                           ELSE Legacy(IF Sym(i + 2, ".") THEN i + 3 ELSE i + 2,
                                       [r EXCEPT !.time = Append(@, n)])
                    ELSE IF Sym(i + 1, ".") /\ TimeExpecting(c, n)
                      THEN IF ~IsNum(j) THEN Failed
                           \* the milliseconds are dropped when n is already
                           \* the fourth component
                           ELSE Legacy(j + 1, [r EXCEPT !.time =
                                  SubSeq(Pad(c.time \o <<n, Milliseconds(ts[j])>>, 4, 0), 1, 4)])
                    ELSE IF ZoneExpecting(c, n) THEN Legacy(j, [r EXCEPT !.minute = n])
                    ELSE IF TimeExpecting(c, n)
                      THEN IF j <= Len(ts) /\ ts[j].k # "ws" /\ ~Word(j, <<"z">>)
                                /\ ~Sym(j, "+") /\ ~Sym(j, "-")
                             THEN Failed
                           ELSE Legacy(j, [r EXCEPT !.time = Pad(Append(c.time, n), 4, 0)])
                    ELSE IF Len(c.comps) = 3 THEN Failed
                    ELSE Legacy(IF Sym(j, "-") THEN j + 1 ELSE j,
                                [r EXCEPT !.comps = Append(@, n)])
          ELSE IF ts[i].k = "word"
            THEN IF (Word(i, <<"a","m">>) \/ Word(i, <<"p","m">>)) /\ c.time # <<>>
                   THEN Legacy(i + 1, [c EXCEPT !.hoff = IF ts[i].w[1] = "p" THEN 12 ELSE 0])
                 ELSE IF IsMonthWord(i)
                   THEN Legacy(IF Sym(i + 1, "-") THEN i + 2 ELSE i + 1,
                               [c EXCEPT !.named = IndexIn(ts[i].w, MonthNames)])
                 ELSE IF IsZoneWord(i) /\ c.read THEN Legacy(i + 1, SetZone(c, ZoneOf(i)))
                 ELSE IF c.read \/ IsNum(i + 1) THEN Failed
                 ELSE Legacy(i + 1, c)
          ELSE IF (Sym(i, "+") \/ Sym(i, "-")) /\ ((c.hour = 0 /\ c.minute = 0) \/ c.time # <<>>)
            THEN LET n == IF IsNum(i + 1) THEN ts[i + 1].n ELSE 0
                     len == IF IsNum(i + 1) THEN ts[i + 1].len ELSE 0
                     j == IF IsNum(i + 1) THEN i + 2 ELSE i + 1
                     r == [c EXCEPT !.read = TRUE, !.sign = IF Sym(i, "-") THEN 0 - 1 ELSE 1]
                 IN IF Sym(j, ":") THEN Legacy(j, [r EXCEPT !.hour = n, !.minute = None])
                    ELSE IF len \in {1, 2} THEN Legacy(j, [r EXCEPT !.hour = n, !.minute = 0])
                    ELSE IF len \in {3, 4}
                      THEN Legacy(j, [r EXCEPT !.hour = n \div 100, !.minute = n % 100])
                    ELSE Failed
          ELSE IF (Sym(i, "+") \/ Sym(i, "-") \/ Sym(i, ")")) /\ c.read THEN Failed
          ELSE Legacy(i + 1, c)
        \* the time of the ES5 format, from the token after 'T' on
        ES5Time(i, c) ==
          LET hasSec == Sym(i + 3, ":")
              hasMs == hasSec /\ Sym(i + 5, ".")
              z == IF hasMs THEN i + 7 ELSE IF hasSec THEN i + 5 ELSE i + 3
              is24 == ts[i].n = 24
              time == <<ts[i].n, ts[i + 2].n>>
                        \o (IF hasSec THEN <<ts[i + 4].n>> ELSE <<>>)
                        \o (IF hasMs THEN <<Milliseconds(ts[i + 6])>> ELSE <<>>)
              timed == [c EXCEPT !.time = time]
              End(j, r) == IF j <= Len(ts) THEN Failed ELSE Done(r, TRUE)
          IN IF ~(Fixed(i, 2) /\ ts[i].n <= 24 /\ Sym(i + 1, ":")) THEN Failed
             ELSE IF ~(Fixed(i + 2, 2) /\ ts[i + 2].n <= 59 /\ (is24 => ts[i + 2].n = 0))
               THEN Failed
             ELSE IF hasSec /\ ~(Fixed(i + 4, 2) /\ ts[i + 4].n <= 59 /\ (is24 => ts[i + 4].n = 0))
               THEN Failed
             ELSE IF hasMs /\ ~(IsNum(i + 6) /\ (is24 => ts[i + 6].n = 0)) THEN Failed
             ELSE IF Word(z, <<"z">>) THEN End(z + 1, SetZone(timed, 0))
             ELSE IF Sym(z, "+") \/ Sym(z, "-")
               THEN LET sign == IF Sym(z, "+") THEN 1 ELSE 0 - 1
                    IN IF Fixed(z + 1, 4)
                         THEN IF (ts[z + 1].n \div 100) <= 23 /\ (ts[z + 1].n % 100) <= 59
                                THEN End(z + 2, [timed EXCEPT !.sign = sign,
                                                              !.hour = ts[z + 1].n \div 100,
                                                              !.minute = ts[z + 1].n % 100])
                              ELSE Failed
                       ELSE IF Fixed(z + 1, 2) /\ ts[z + 1].n <= 23 /\ Sym(z + 2, ":")
                               /\ Fixed(z + 3, 2) /\ ts[z + 3].n <= 59
                         THEN End(z + 4, [timed EXCEPT !.sign = sign, !.hour = ts[z + 1].n,
                                                       !.minute = ts[z + 3].n])
                       ELSE Failed
             ELSE End(z, timed)
        \* after the date of the ES5 format, which ends before token i
        After(i, c) ==
          IF i > Len(ts) THEN Done(SetZone(c, 0), TRUE)
          ELSE IF Word(i, <<"t">>) THEN ES5Time(i + 1, c)
          ELSE GoesOn(i, c)
        \* after the year of the ES5 format, which ends before token i: the
        \* position and the components at which the date of the format ends
        Rest(i, year) ==
          LET y == [Empty EXCEPT !.comps = <<year>>]
              ym == [Empty EXCEPT !.comps = <<year, ts[i + 1].n>>]
          IN IF ~Sym(i, "-") THEN <<TRUE, i, y>>
             ELSE IF ~(Fixed(i + 1, 2) /\ IsMonth(ts[i + 1].n)) THEN <<FALSE, i + 1, y>>
             ELSE IF ~Sym(i + 2, "-") THEN <<TRUE, i + 2, ym>>
             ELSE IF ~(Fixed(i + 3, 2) /\ IsDay(ts[i + 3].n)) THEN <<FALSE, i + 3, ym>>
             ELSE <<TRUE, i + 4, [Empty EXCEPT !.comps = <<year, ts[i + 1].n, ts[i + 3].n>>]>>
        Dated(e) == IF e[1] THEN After(e[2], e[3]) ELSE GoesOn(e[2], e[3])
        signed == Sym(1, "+") \/ Sym(1, "-")
        ES5 ==
          IF signed /\ ~Fixed(2, 6) THEN GoesOn(1, Empty)
          ELSE IF Sym(1, "-") /\ ts[2].n = 0 THEN GoesOn(3, Empty)
          ELSE IF ~signed /\ ~Fixed(1, 4) THEN GoesOn(1, Empty)
          ELSE Dated(Rest(IF signed THEN 3 ELSE 2,
                          IF signed THEN (IF Sym(1, "-") THEN 0 - ts[2].n ELSE ts[2].n)
                          ELSE ts[1].n))
        Finish(p) == IF p.k = "legacy" THEN Legacy(p.i, p.c) ELSE p
        Made(p) == IF p.k = "failed" THEN NoDate
                   ELSE Write(p.c, p.iso, Pad(p.c.comps, 3, 1), Pad(p.c.time, 4, 0))
    IN Made(Finish(ES5))
  IN Parse(Tokens(s))

\* !isNaN(new Date(s).getTime())
IsDateString(s) == newDate(s).ok
\* new Date(s) for a string s that gives a valid date
parseDate(s) == newDate(s).t

(***************************************************************************)
(* The mongoose schema (models/appointments.js 3-46).                      *)
(***************************************************************************)
Vietnamese == <<"v","i","e","t","n","a","m","e","s","e">>
English == <<"e","n","g","l","i","s","h">>

\* enum: ['vietnamese', 'english', 'simplified', 'traditional', 'french', 'korean']
languageEnum ==
  {Vietnamese, English,
   <<"s","i","m","p","l","i","f","i","e","d">>,
   <<"t","r","a","d","i","t","i","o","n","a","l">>,
   <<"f","r","e","n","c","h">>,
   <<"k","o","r","e","a","n">>}
languageDefault == Vietnamese

SchemaPaths == {"name", "email", "phone", "date", "service", "message",
                "language", "createdAt"}

\* The cast of a String path: a number becomes its decimal digits
castString(x) == IF x.t = "number" THEN Str(x.v) ELSE x

CastError == [t |-> "CastError", v |-> <<>>]

\* Number(value) for a string (StringToNumber of ECMAScript): whether it is
\* NaN, its sign, whether it is 2^53 or more (Infinity included), and below
\* that the decimal digits of its integer part and whether a fraction is
\* left.  The string, white space at its ends apart, is empty (0),
\* 'Infinity' with or without a sign, digits with or without a sign, a point
\* and an exponent, or '0x', '0o', '0b' and digits of that radix.  The value
\* is the double nearest to the number written, ties to the even one: a
\* fraction within half a unit in the last place of the next integer gives
\* that integer.  Naturals are sequences of decimal digits here (the empty
\* one is 0), for they pass the integers of TLC; an exponent of more than
\* eight digits is taken as 10^8.
Number(value) ==
  LET NaN == [nan |-> TRUE, neg |-> FALSE, big |-> FALSE, int |-> <<>>, frac |-> FALSE]
      Big(neg) == [nan |-> FALSE, neg |-> neg, big |-> TRUE, int |-> <<>>, frac |-> FALSE]
      Finite(neg, n, frac) ==
        [nan |-> FALSE, neg |-> neg, big |-> FALSE,
         int |-> [i \in 1..Len(n) |-> Digits[n[i] + 1]], frac |-> frac]
      Stripped(ds) ==
        LET zeros == CHOOSE z \in 0..Len(ds) : /\ \A j \in 1..z : ds[j] = 0
                                               /\ z = Len(ds) \/ ds[z + 1] # 0
        IN SubSeq(ds, zeros + 1, Len(ds))
      RECURSIVE MulAdd(_, _, _)
      \* ds * b + c
      MulAdd(ds, b, c) ==
        IF ds = <<>>
          THEN IF c = 0 THEN <<>> ELSE MulAdd(<<>>, b, c \div 10) \o <<c % 10>>
        ELSE MulAdd(SubSeq(ds, 1, Len(ds) - 1), b, (ds[Len(ds)] * b + c) \div 10)
               \o <<(ds[Len(ds)] * b + c) % 10>>
      Less(a, b) ==
        \/ Len(a) < Len(b)
        \/ /\ Len(a) = Len(b)
           /\ \E k \in 1..Len(a) : a[k] < b[k] /\ \A j \in 1..(k - 1) : a[j] = b[j]
      \* of two fractions, given by their digits after the point
      FracLess(f, g) ==
        LET Padded(q, len) == q \o [i \in 1..(len - Len(q)) |-> 0]
        IN Less(Padded(f, Len(g)), Padded(g, Len(f)))
      RECURSIVE Power(_, _)
      \* b^k for b <= 5, eleven factors at a time
      Power(b, k) == IF k <= 11 THEN MulAdd(<<>>, b, b ^ k)
                     ELSE MulAdd(Power(b, k - 11), b ^ 11, 0)
      Pow2(k) == Power(2, k)
      \* the digits after the point of 2^-j, which is 5^j / 10^j
      HalfPow(j) == [i \in 1..(j - Len(Power(5, j))) |-> 0] \o Power(5, j)
      \* the digits after the point of 1 - 0.d, the last digit of d not 0
      OneLess(d) == [i \in 1..Len(d) |-> IF i < Len(d) THEN 9 - d[i] ELSE 10 - d[i]]
      \* The double nearest to n + 0.f, for 1 <= n < 2^53 of e + 1 binary
      \* digits: between two integers the doubles lie 2^(e-52) apart
      Nearest(neg, n, f, e) ==
        LET Up(m) == IF Less(m, Pow2(53)) THEN Finite(neg, m, FALSE) ELSE Big(neg)
        IN IF e = 52
             THEN IF FracLess(<<5>>, f) \/ (~FracLess(f, <<5>>) /\ n[Len(n)] % 2 = 1)
                    THEN Up(MulAdd(n, 1, 1))
                  ELSE Finite(neg, n, FALSE)
           ELSE IF ~FracLess(f, OneLess(HalfPow(53 - e))) THEN Up(MulAdd(n, 1, 1))
           ELSE Finite(neg, n, FracLess(HalfPow(53 - e), f))
      Double(neg, n, f) ==
        IF n = <<>>
          THEN IF ~FracLess(f, OneLess(HalfPow(54))) THEN Finite(neg, <<1>>, FALSE)
               ELSE Finite(neg, n, \E i \in 1..Len(f) : f[i] # 0)
        ELSE IF ~Less(n, Pow2(53)) THEN Big(neg)
        ELSE Nearest(neg, n, f, CHOOSE e \in 0..52 : ~Less(n, Pow2(e)) /\ Less(n, Pow2(e + 1)))
      \* 2^-1075 is 0.Least * 10^-323, Least being the 752 digits of 5^1075:
      \* what is not above it rounds to 0
      Least ==
        <<2,4,7,0,3,2,8,2,2,9,2,0,6,2,3,2,7,2,0,8,8,2,8,4,3,9,6,4,3,4,1,1,0,6,8,6,
          1,8,2,5,2,9,9,0,1,3,0,7,1,6,2,3,8,2,2,1,2,7,9,2,8,4,1,2,5,0,3,3,7,7,5,3,
          6,3,5,1,0,4,3,7,5,9,3,2,6,4,9,9,1,8,1,8,0,8,1,7,9,9,6,1,8,9,8,9,8,2,8,2,
          3,4,7,7,2,2,8,5,8,8,6,5,4,6,3,3,2,8,3,5,5,1,7,7,9,6,9,8,9,8,1,9,9,3,8,7,
          3,9,8,0,0,5,3,9,0,9,3,9,0,6,3,1,5,0,3,5,6,5,9,5,1,5,5,7,0,2,2,6,3,9,2,2,
          9,0,8,5,8,3,9,2,4,4,9,1,0,5,1,8,4,4,3,5,9,3,1,8,0,2,8,4,9,9,3,6,5,3,6,1,
          5,2,5,0,0,3,1,9,3,7,0,4,5,7,6,7,8,2,4,9,2,1,9,3,6,5,6,2,3,6,6,9,8,6,3,6,
          5,8,4,8,0,7,5,7,0,0,1,5,8,5,7,6,9,2,6,9,9,0,3,7,0,6,3,1,1,9,2,8,2,7,9,5,
          5,8,5,5,1,3,3,2,9,2,7,8,3,4,3,3,8,4,0,9,3,5,1,9,7,8,0,1,5,5,3,1,2,4,6,5,
          9,7,2,6,3,5,7,9,5,7,4,6,2,2,7,6,6,4,6,5,2,7,2,8,2,7,2,2,0,0,5,6,3,7,4,0,
          0,6,4,8,5,4,9,9,9,7,7,0,9,6,5,9,9,4,7,0,4,5,4,0,2,0,8,2,8,1,6,6,2,2,6,2,
          3,7,8,5,7,3,9,3,4,5,0,7,3,6,3,3,9,0,0,7,9,6,7,7,6,1,9,3,0,5,7,7,5,0,6,7,
          4,0,1,7,6,3,2,4,6,7,3,6,0,0,9,6,8,9,5,1,3,4,0,5,3,5,5,3,7,4,5,8,5,1,6,6,
          6,1,1,3,4,2,2,3,7,6,6,6,7,8,6,0,4,1,6,2,1,5,9,6,8,0,4,6,1,9,1,4,4,6,7,2,
          9,1,8,4,0,3,0,0,5,3,0,0,5,7,5,3,0,8,4,9,0,4,8,7,6,5,3,9,1,7,1,1,3,8,6,5,
          9,1,6,4,6,2,3,9,5,2,4,9,1,2,6,2,3,6,5,3,8,8,1,8,7,9,6,3,6,2,3,9,3,7,3,2,
          8,0,4,2,3,8,9,1,0,1,8,6,7,2,3,4,8,4,9,7,6,6,8,2,3,5,0,8,9,8,6,3,3,8,8,5,
          8,7,9,2,5,6,2,8,3,0,2,7,5,5,9,9,5,6,5,7,5,2,4,4,5,5,5,0,7,2,5,5,1,8,9,3,
          1,3,6,9,0,8,3,6,2,5,4,7,7,9,1,8,6,9,4,8,6,6,7,9,9,4,9,6,8,3,2,4,0,4,9,7,
          0,5,8,2,1,0,2,8,5,1,3,1,8,5,4,5,1,3,9,6,2,1,3,8,3,7,7,2,2,8,2,6,1,4,5,4,
          3,7,6,9,3,4,1,2,5,3,2,0,9,8,5,9,1,3,2,7,6,6,7,2,3,6,3,2,8,1,2,5>>
      \* The number of digits d, the point standing after the first len of
      \* them: 10^16 and more is past 2^53, 2^-1075 and less gives 0
      Decimal(neg, d, len) ==
        IF d = <<>> THEN Finite(neg, <<>>, FALSE)
        ELSE IF len > 16 THEN Big(neg)
        ELSE IF len < 0
          THEN Finite(neg, <<>>, len > 0 - 323 \/ (len = 0 - 323 /\ FracLess(Least, d)))
        ELSE Double(neg, SubSeq(d, 1, Min(len, Len(d))) \o [i \in 1..(len - Len(d)) |-> 0],
                    SubSeq(d, len + 1, Len(d)))
      Read(s) ==
        LET digits(i) == CHOOSE n \in 0..(Len(s) - i + 1) :
                           /\ \A j \in i..(i + n - 1) : IsDigit(s[j])
                           /\ i + n > Len(s) \/ ~IsDigit(s[i + n])
            Values(i, n) == [k \in 1..n |-> DigitVal(s[i + k - 1])]
            neg == s # <<>> /\ s[1] = "-"
            \* digits of the radix b from the third character on
            RadixValue(c) == IF IsDigit(c) THEN DigitVal(c)
                             ELSE IF \E k \in 1..6 : Lowers[k] = c \/ Uppers[k] = c
                               THEN 9 + CHOOSE k \in 1..6 : Lowers[k] = c \/ Uppers[k] = c
                             ELSE 36
            RECURSIVE Radix(_, _)
            Radix(b, k) == IF k = 2 THEN <<>> ELSE MulAdd(Radix(b, k - 1), b, RadixValue(s[k]))
            InRadix(b) ==
              IF \E k \in 3..Len(s) : RadixValue(s[k]) >= b THEN NaN
              ELSE IF Len(Stripped([k \in 1..(Len(s) - 2) |-> RadixValue(s[k + 2])])) > 53
                THEN Big(FALSE)
              ELSE Double(FALSE, Radix(b, Len(s)), <<>>)
            \* the exponent written by the digits ds, negative if minus
            RECURSIVE valueOf(_, _)
            valueOf(ds, k) == IF k = 0 THEN 0 ELSE 10 * valueOf(ds, k - 1) + ds[k]
            Exponent(ds, minus) ==
              IF Len(ds) > 8 THEN (IF minus THEN 0 - 100000000 ELSE 100000000)
              ELSE IF minus THEN 0 - valueOf(ds, Len(ds)) ELSE valueOf(ds, Len(ds))
            \* a decimal literal: i digits from first on, f digits after
            \* the point if there is one, and at p the exponent or the end
            Literal(first, i, f, p) ==
              LET signed == p + 1 <= Len(s) /\ s[p + 1] \in {"+", "-"}
                  q == IF signed THEN p + 2 ELSE p + 1
                  mantissa == Stripped(Values(first, i) \o Values(first + i + 1, f))
                  Scaled(x) == Decimal(neg, mantissa, Len(mantissa) - f + x)
              IN IF i + f = 0 THEN NaN
                 ELSE IF p > Len(s) THEN Scaled(0)
                 ELSE IF s[p] \notin {"e", "E"} \/ digits(q) = 0 \/ q + digits(q) <= Len(s) THEN NaN
                 ELSE Scaled(Exponent(Stripped(Values(q, digits(q))), s[q - 1] = "-"))
            Pointed(first, i) ==
              IF first + i <= Len(s) /\ s[first + i] = "."
                THEN Literal(first, i, digits(first + i + 1), first + i + 1 + digits(first + i + 1))
              ELSE Literal(first, i, 0, first + i)
            Signed(first) ==
              IF SubSeq(s, first, Len(s)) = <<"I","n","f","i","n","i","t","y">> THEN Big(neg)
              ELSE Pointed(first, digits(first))
        IN IF s = <<>> THEN Finite(FALSE, <<>>, FALSE)
           ELSE IF Len(s) > 2 /\ s[1] = "0" /\ s[2] \in {"x", "X"} THEN InRadix(16)
           ELSE IF Len(s) > 2 /\ s[1] = "0" /\ s[2] \in {"o", "O"} THEN InRadix(8)
           ELSE IF Len(s) > 2 /\ s[1] = "0" /\ s[2] \in {"b", "B"} THEN InRadix(2)
           ELSE Signed(IF s[1] \in {"+", "-"} THEN 2 ELSE 1)
  IN Read(trim(value))

\* The cast of a Date path (mongoose's castDate): undefined stays, an empty
\* string is null, a number is so many milliseconds from 1970, a string that
\* writes a number of 275761 or more (or below -271820) is taken as such a
\* number, any other string goes to new Date; a value that gives no valid
\* date is a CastError, which save() reports as a ValidationError.
castDate(x) ==
  LET Large(w) ==
        LET RECURSIVE valueOf(_)
            valueOf(k) == IF k = 0 THEN 0 ELSE 10 * valueOf(k - 1) + DigitVal(w.int[k])
            Beyond(millis) == IF ~w.neg THEN millis >= 275761
                              ELSE millis > 271820 \/ (millis = 271820 /\ w.frac)
        IN ~w.nan /\ (w.big \/ Len(w.int) > 6 \/ Beyond(valueOf(Len(w.int))))
      Made(w) == IF x.t = "number" THEN newDateOfNumber(x.v, FALSE)
                 ELSE IF ~Large(w) THEN newDate(x.v)
                 ELSE IF w.big THEN NoDate
                 ELSE newDateOfNumber(w.int, w.neg)
      Dated(made) == IF made.ok THEN [t |-> "date", v |-> <<made.t.day, made.t.ms>>]
                     ELSE CastError
  IN IF x.t = "undefined" THEN x
     ELSE IF x = Str(<<>>) THEN [t |-> "null", v |-> <<>>]
     ELSE Dated(Made(Number(x.v)))

\* The setters and defaults of the schema applied to the object given to
\* new Appointment(...): the cast of each path; trim on name, email, phone,
\* message; lowercase on email; language defaults to 'vietnamese'; createdAt
\* defaults to Date.now; a path outside the schema is dropped (strict mode).
\* A createdAt given in the object would take the place of the default.
SetString(x, lower) ==
  LET c == castString(x)
  IN IF c.t = "string" THEN Str(IF lower THEN toLowerCase(trim(c.v)) ELSE trim(c.v)) ELSE c

NewAppointment(o, id, clock) ==
  [id |-> id,
   name |-> SetString(o.name, FALSE),
   email |-> SetString(o.email, TRUE),
   phone |-> SetString(o.phone, FALSE),
   date |-> castDate(o.date),
   service |-> castString(o.service),
   message |-> SetString(o.message, FALSE),
   language |-> IF o.language.t = "undefined" THEN Str(languageDefault)
                ELSE castString(o.language),
   createdAt |-> IF "createdAt" \in DOMAIN o /\ o.createdAt.t # "undefined"
                   THEN LET Given(c) == IF c.t = "date" THEN Instant(c.v[1], c.v[2]) ELSE c
                        IN Given(castDate(o.createdAt))
                   ELSE clock,
   status |-> Undef]

\* required on a String path: the value is a non-empty string
RequiredFails(x) == ~(x.t = "string" /\ x.v # <<>>)
MaxlengthFails(x, n) == x.t = "string" /\ Len(x.v) > n

\* enum: [...] on the language path
enumFails(x) == x.t = "string" /\ x.v \notin languageEnum

\* The paths on which validation fails at save()
ValidationErrors(d) ==
     {p \in {"name"} : RequiredFails(d.name) \/ MaxlengthFails(d.name, NameMaxlength)}
  \cup {p \in {"email"} : RequiredFails(d.email) \/ MaxlengthFails(d.email, EmailMaxlength)}
  \cup {p \in {"phone"} : RequiredFails(d.phone) \/ MaxlengthFails(d.phone, PhoneMaxlength)}
  \cup {p \in {"date"} : d.date.t # "date"}
  \cup {p \in {"service"} : RequiredFails(d.service)}
  \cup {p \in {"message"} : MaxlengthFails(d.message, MessageMaxlength)}
  \cup {p \in {"language"} : RequiredFails(d.language) \/ enumFails(d.language)}
  \cup {p \in {"createdAt"} : d.createdAt = CastError}

\* What the database answers to the insert of a document: it inserts it,
\* it fails, or it refuses the document with a duplicate key error (code
\* 11000) because a unique index holds a stored document with the same key
SaveAnswers == {"ok", "Error", "DuplicateKey"}

\* newAppointment.save(): "ValidationError" before anything is written;
\* otherwise what the database answers to the insert
SaveOutcome(d, answer) ==
  IF ValidationErrors(d) # {} THEN "ValidationError"
  ELSE answer

\* The ObjectId mongoose gives the n-th document, as its 24 hex characters
\* (an ObjectId is twelve bytes)
ObjectIdOf(n) == Rep("0", 2 * 12 - 1) \o <<Digits[n + 1]>>

\* The cast of a route parameter to ObjectId succeeds: 24 hex digits
isValidObjectId(s) ==
  /\ Len(s) = 2 * 12
  /\ \A i \in 1..Len(s) :
       s[i] \in {Digits[k] : k \in 1..10} \cup {Lowers[k] : k \in 1..6}
                  \cup {Uppers[k] : k \in 1..6}

\* The update given to findByIdAndUpdate after the cast against the schema:
\* strict mode keeps only the paths the schema declares
castUpdate(u) == [p \in (DOMAIN u) \cap SchemaPaths |-> u[p]]

(***************************************************************************)
(* Request bodies.  A body gives each field a value or undefined.  The     *)
(* bodies of the model are BaseBody, which every build accepts, the bodies *)
(* that differ from it in one field, the bodies that lack any subset of    *)
(* name, phone, email and language, and the bodies that differ from it in  *)
(* two fields of which one is the token or an unknown language.            *)
(***************************************************************************)
Token == <<"t","o","k">>
Ann == <<"A","n","n">>
Phone1 == <<"1">>
MixedEmail == <<"A","@","b",".","c">>
NoAtEmail == <<"a","b">>
\* a well-formed address two characters longer than the cut, whose cut
\* falls inside the domain
LongEmail == Rep("a", EmailCut - 2) \o <<"@","b",".","c">>
Date1 == <<"2","0","2","5","-","0","1","-","0","1">>
\* a date written without leading zeros, which only the legacy parser reads
ShortDate == <<"2","0","2","5","-","3","-","2">>
\* 2025-01-01T00:00:00.000Z in milliseconds, sent as a JSON number
Millis2025 == <<"1","7","3","5","6","8","9","6","0","0","0","0","0">>
NotADay == <<"s","o","o","n">>
Klingon == <<"k","l","i","n","g","o","n">>
Digits123 == <<"1","2","3">>
Confirmed == <<"c","o","n","f","i","r","m","e","d">>
GeneralCheckup == <<"G","e","n","e","r","a","l"," ","C","h","e","c","k","u","p">>

Fields == {"recaptchaToken", "name", "email", "phone", "date", "service",
           "message", "language", "status", "createdAt"}

BaseBody ==
  [recaptchaToken |-> Str(Token), name |-> Str(Ann), email |-> Str(MixedEmail),
   phone |-> Str(Phone1), date |-> Str(Date1), service |-> Undef,
   message |-> Undef, language |-> Str(English), status |-> Undef,
   createdAt |-> Undef]

BodyValues ==
  [recaptchaToken : {Undef, Str(<<>>), Str(Token)},
   name : {Undef, Str(Ann), Str(<<" ">>), Num(Digits123)},
   email : {Undef, Str(MixedEmail), Str(NoAtEmail), Str(<<"a","@","b">>),
            Str(<<"a"," ","@","b",".","c">>), Str(LongEmail)},
   phone : {Undef, Str(Phone1)},
   date : {Undef, Str(Date1), Str(ShortDate), Num(Millis2025), Str(NotADay)},
   service : {Undef, Num(Digits123)},
   message : {Undef, Num(Digits123)},
   language : {Undef, Str(English), Str(Klingon), Str(<<"E","n","g","l","i","s","h">>)},
   status : {Undef, Str(Confirmed)},
   createdAt : {Undef, Str(Date1)}]


Bodies ==
  {b \in BodyValues :
     LET Deviating == {f \in Fields : b[f] # BaseBody[f]}
     IN \/ Cardinality(Deviating) <= 1
        \/ \A f \in Deviating : f \in {"name", "phone", "email", "language"} /\ b[f] = Undef
        \/ /\ Cardinality(Deviating) = 2
           /\ "recaptchaToken" \in Deviating \/ b.language = Str(Klingon)}

\* The bodies sent to the "admin" build
SmallBodies ==
  {BaseBody, [BaseBody EXCEPT !.name = Undef], [BaseBody EXCEPT !.email = Str(NoAtEmail)],
   [BaseBody EXCEPT !.date = Undef], [BaseBody EXCEPT !.status = Str(Confirmed)],
   [BaseBody EXCEPT !.createdAt = Str(Date1)],
   [BaseBody EXCEPT !.date = Num(Millis2025), !.service = Num(Digits123)]}


(***************************************************************************)
(* Responses: the status and the properties of the JSON object sent.       *)
(* success and error are "absent" when the object has no such property,    *)
(* message is <<>> when it has none; data is the documents sent and count  *)
(* the count property (-1 when there is none); shape is "object", "array"  *)
(* or "text" (a bare string).                                              *)
(***************************************************************************)
Response(status, success, error, message) ==
  [status |-> status, shape |-> "object", success |-> success, error |-> error,
   message |-> message, missingFields |-> <<>>, count |-> -1, data |-> <<>>]

NoResponse == Response(0, "absent", "absent", <<>>)

RECURSIVE join(_, _)
\* a.join(sep), as the sequence of its pieces
join(a, sep) ==
  IF Len(a) = 0 THEN <<>>
  ELSE IF Len(a) = 1 THEN <<a[1]>>
  ELSE <<a[1], sep>> \o join(Tail(a), sep)

\* requiredFields.filter(field => !formData[field])
missingFieldsOf(required, fd) ==
  LET RECURSIVE filter(_)
      filter(q) == IF q = <<>> THEN <<>>
                   ELSE IF ~Truthy(fd[Head(q)]) THEN <<Head(q)>> \o filter(Tail(q))
                   ELSE filter(Tail(q))
  IN filter(required)

\* formData.message?.trim().substring(0, 500) || ''
messageOf(m) ==
  IF m.t = "undefined" THEN Str(<<>>)
  ELSE OrElse(Str(substring(trim(m.v), MessageCut)), Str(<<>>))

\* (the createdAt of the body is handed on)
appointmentObject_WithCreatedAt(fd, language) ==
  [name |-> Str(substring(trim(fd.name.v), NameCut)),
   email |-> Str(substring(toLowerCase(trim(fd.email.v)), EmailCut)),
   phone |-> Str(substring(trim(fd.phone.v), PhoneCut)),
   date |-> OrElse(fd.date, Undef),
   service |-> OrElse(fd.service, Str(GeneralCheckup)),
   message |-> messageOf(fd.message),
   language |-> language,
   createdAt |-> fd.createdAt]

\* The object handed to new Appointment(...)
appointmentObject(fd, language) ==
  [name |-> Str(substring(trim(fd.name.v), NameCut)),
   email |-> Str(substring(toLowerCase(trim(fd.email.v)), EmailCut)),
   phone |-> Str(substring(trim(fd.phone.v), PhoneCut)),
   date |-> OrElse(fd.date, Undef),
   service |-> OrElse(fd.service, Str(GeneralCheckup)),
   message |-> messageOf(fd.message),
   language |-> language]

\* x.trim() throws a TypeError unless x is a string
buildThrows(fd) ==
  \/ fd.name.t # "string" \/ fd.email.t # "string" \/ fd.phone.t # "string"
  \/ fd.message.t \notin {"undefined", "string"}

Created == Response(201, "true", "absent",
                    <<"Appointment request received! We will contact you soon.">>)

\* What a handler did up to its response or to its await on the store: the
\* response (NoResponse while it waits), the document it built, the store
\* operation it issued and the exception its catch block received
Outcome(resp, docs, ops, caught) ==
  [resp |-> resp, docs |-> docs, ops |-> ops, caught |-> caught]

\* The handler waits on newAppointment.save()
Saving(d) == Outcome(NoResponse, <<d>>, <<"save">>, "none")

(***************************************************************************)
(* POST /api/appointments of the "captcha" build, from step 4 up to        *)
(* await newAppointment.save() (server.js 104-138): the request has passed *)
(* the reCAPTCHA gate.                                                     *)
(***************************************************************************)
requiredFields == <<"name", "phone">>

ServerError ==
  Response(500, "false", "SERVER_ERROR",
           <<"An unexpected error occurred. Please try again later.">>)

intakeValidated(body, id, clock) ==
  LET missingFields == missingFieldsOf(requiredFields, body)
  IN IF Len(missingFields) > 0
       THEN Outcome([Response(400, "false", "MISSING_FIELDS",
                              <<"Missing required fields: ">> \o join(missingFields, ", "))
                       EXCEPT !.missingFields = missingFields], <<>>, <<>>, "none")
     ELSE IF ~emailRegexTest(body.email)
       THEN Outcome(Response(400, "false", "INVALID_EMAIL",
                             <<"Please provide a valid email address">>), <<>>, <<>>, "none")
     ELSE IF buildThrows(body) THEN Outcome(ServerError, <<>>, <<>>, "TypeError")
     ELSE Saving(NewAppointment(appointmentObject(body, body.language), id, clock))

(***************************************************************************)
(* POST /api/appointments of the "early" build, from step 4 up to the save *)
(* (appointments.js 131-153).                                              *)
(***************************************************************************)
requiredFieldsEarly == <<"name", "email", "phone">>

Failed500 == Response(500, "false", "absent", <<"Failed to process request">>)

intakeEarly(body, id, clock) ==
  LET missingFields == missingFieldsOf(requiredFieldsEarly, body)
  IN IF Len(missingFields) > 0
       THEN Outcome(Response(400, "false", "absent",
                             <<"Missing required fields: ">> \o join(missingFields, ", ")),
                    <<>>, <<>>, "none")
     ELSE IF buildThrows(body) THEN Outcome(Failed500, <<>>, <<>>, "TypeError")
     ELSE Saving(NewAppointment(appointmentObject(body, body.language), id, clock))

(***************************************************************************)
(* POST /api/appointments of the "admin" build (server.js 261-283) and of  *)
(* the "limited" build (part_001 82-104), up to the save: no gate inside   *)
(* the handler, no language given to the model.                            *)
(***************************************************************************)
requiredFieldsAdmin == <<"name", "email", "phone">>

intakeAdmin(body, id, clock) ==
  LET missingFields == missingFieldsOf(requiredFieldsAdmin, body)
  IN IF Len(missingFields) > 0
       THEN Outcome(Response(400, "absent", "absent",
                             <<"Missing required fields: ">> \o join(missingFields, ", ")),
                    <<>>, <<>>, "none")
     ELSE IF buildThrows(body) THEN Outcome(Failed500, <<>>, <<>>, "TypeError")
     ELSE Saving(NewAppointment(appointmentObject(body, Undef), id, clock))

intakeLimited(body, id, clock) == intakeAdmin(body, id, clock)

\* The handler of the build from the settling of save() on: the 201, or the
\* catch block. The "captcha" build answers a ValidationError with 400 and an
\* error with code 11000 with 409; the other builds answer every error with
\* 500. What the database throws is an Error, the duplicate key error too.
afterSave(build, d, answer) ==
  LET saved == SaveOutcome(d, answer)
      caught == IF saved = "DuplicateKey" THEN "Error" ELSE saved
  IN IF saved = "ok" THEN Outcome(Created, <<d>>, <<"save">>, "none")
     ELSE IF build # "captcha" THEN Outcome(Failed500, <<>>, <<"save">>, caught)
     ELSE IF saved = "ValidationError"
       THEN Outcome(Response(400, "false", "VALIDATION_ERROR", <<"Invalid data provided">>),
                    <<>>, <<"save">>, caught)
     ELSE IF saved = "DuplicateKey"
       THEN Outcome(Response(409, "false", "DUPLICATE_ENTRY",
                             <<"An appointment with this email already exists">>),
                    <<>>, <<"save">>, caught)
     ELSE Outcome(ServerError, <<>>, <<"save">>, caught)

(***************************************************************************)
(* The clock of the model.                                                 *)
(***************************************************************************)
\* The instants the clock of the model passes through
TimeLine ==
  <<Instant(DayNumber(2025, 3, 2), 0),
    Instant(DayNumber(2025, 3, 31), MsPerDay - 1),
    Instant(DayNumber(2025, 4, 1), 0),
    Instant(DayNumber(2025, 4, 1), 12 * 60 * 60 * 1000)>>


(***************************************************************************)
(* State.                                                                  *)
(*   variant     the build that is running                                 *)
(*   adminToken  process.env.ADMIN_TOKEN                                   *)
(*   store       the appointments collection                               *)
(*   inserted    how many documents have been built and given an ObjectId  *)
(*   now         the clock (Date.now)                                      *)
(*   slots       the requests being handled or last answered: pc is        *)
(*               "idle", "verify" (suspended on the reCAPTCHA call),       *)
(*               "store" (suspended on the store operation of ops) or      *)
(*               "done"; calls counts the verification calls issued,       *)
(*               recaptcha is the verifier's answer, ops the store         *)
(*               operations the handler issued, args what the handler      *)
(*               computed for the operation before it awaits (the document *)
(*               to save, the two ends of a range), caught the exception   *)
(*               its catch block received                                  *)
(*   hits        the rate limiter's count per client key                   *)
(***************************************************************************)
VARIABLES variant, adminToken, store, inserted, now, slots, hits

vars == <<variant, adminToken, store, inserted, now, slots, hits>>

Slots == 1..MaxInFlight
Keys == {"ip1", "ip2"}
Secret == <<"s3cret">>

IdleSlot ==
  [pc |-> "idle", op |-> "none", key |-> "none", hdr |-> Undef, body |-> [f \in Fields |-> Undef],
   param |-> <<>>, recaptcha |-> "none", calls |-> 0, ops |-> <<>>, args |-> <<>>,
   caught |-> "none", resp |-> NoResponse]

Init ==
  /\ variant \in {"captcha", "early", "admin", "limited"}
  /\ adminToken \in {Undef, Str(Secret)}
  /\ (variant # "admin" => adminToken = Undef)
  /\ store = {}
  /\ inserted = 0
  /\ now = TimeLine[1]
  /\ slots = [r \in Slots |-> IdleSlot]
  /\ hits = [k \in Keys |-> 0]

\* A request is taken by the first slot that is not suspended
Suspended(slot) == slot.pc \in {"verify", "store"}

Free(r) ==
  /\ ~Suspended(slots[r])
  /\ \A q \in DOMAIN slots : q < r => Suspended(slots[q])

\* The synchronous part of an intake handler has run: it has sent its
\* response, or it has built a document and waits on the store to save it
Apply(r, request, out) ==
  /\ out.docs = <<>> \/ inserted < MaxInserts
  /\ slots' = [slots EXCEPT ![r] =
                 [request EXCEPT !.pc = IF out.ops = <<>> THEN "done" ELSE "store",
                                 !.resp = out.resp, !.ops = out.ops,
                                 !.args = out.docs, !.caught = out.caught]]
  /\ inserted' = inserted + Len(out.docs)
  /\ store' = store

\* The handler of slot r is resumed from its await, sends resp, and the
\* collection is coll
Settle(r, resp, caught, coll) ==
  /\ slots' = [slots EXCEPT ![r] = [@ EXCEPT !.pc = "done", !.resp = resp,
                                           !.caught = caught]]
  /\ store' = coll
  /\ UNCHANGED <<variant, adminToken, inserted, now, hits>>

\* await newAppointment.save() settles: the document is validated and
\* written, and the handler sends its response. A duplicate key is found
\* only against a document of the collection.
SaveSettles(r, answer) ==
  /\ slots[r].pc = "store"
  /\ slots[r].ops = <<"save">>
  /\ answer = "DuplicateKey" => store # {}
  /\ LET out == afterSave(variant, slots[r].args[1], answer)
     IN Settle(r, out.resp, out.caught, store \cup {out.docs[i] : i \in 1..Len(out.docs)})

NextId == ObjectIdOf(inserted + 1)

(***************************************************************************)
(* The reCAPTCHA gate of the "captcha" build (server.js 57-102).           *)
(***************************************************************************)
RecaptchaRequired ==
  Response(400, "false", "RECAPTCHA_REQUIRED", <<"reCAPTCHA verification required">>)
RecaptchaServiceError ==
  Response(502, "false", "RECAPTCHA_SERVICE_ERROR",
           <<"Unable to verify reCAPTCHA at this time">>)
RecaptchaFailed ==
  Response(400, "false", "RECAPTCHA_FAILED", <<"Failed reCAPTCHA verification">>)

RecaptchaAnswers == {"success", "failure", "throw"}

\* if (!recaptchaToken)
tokenMissing(body) == ~Truthy(body.recaptchaToken)

\* (the verifier's verdict is not looked at)
verificationFailed_Ignored(answer) == FALSE

\* if (!recaptchaResponse.data.success)
verificationFailed(answer) == answer # "success"

IntakeRequest(body) == [IdleSlot EXCEPT !.op = "intake", !.body = body]

\* Steps 1-3 up to the await of axios.post
PostAppointments(r, body) ==
  /\ variant = "captcha"
  /\ Free(r)
  /\ IF tokenMissing(body)
       THEN slots' = [slots EXCEPT ![r] =
                        [IntakeRequest(body) EXCEPT !.pc = "done", !.resp = RecaptchaRequired]]
       ELSE slots' = [slots EXCEPT ![r] =
                        [IntakeRequest(body) EXCEPT !.pc = "verify", !.calls = 1]]
  /\ UNCHANGED <<variant, adminToken, store, inserted, now, hits>>

\* The verification call settles and the handler runs to its response or
\* to its await on the store
RecaptchaAnswer(r, answer) ==
  /\ variant = "captcha"
  /\ slots[r].pc = "verify"
  /\ LET request == [slots[r] EXCEPT !.recaptcha = answer]
         out == IF answer = "throw" THEN Outcome(RecaptchaServiceError, <<>>, <<>>, "AxiosError")
                ELSE IF verificationFailed(answer)
                  THEN Outcome(RecaptchaFailed, <<>>, <<>>, "none")
                ELSE intakeValidated(request.body, NextId, now)
     IN Apply(r, request, out)
  /\ UNCHANGED <<variant, adminToken, now, hits>>

(***************************************************************************)
(* The reCAPTCHA gate of the "early" build (appointments.js 105-129,       *)
(* 160-166): responses carry no error property, and a failure of the       *)
(* verification call itself falls to the handler's catch.                  *)
(***************************************************************************)
RecaptchaRequiredEarly ==
  Response(400, "false", "absent", <<"reCAPTCHA verification required">>)
RecaptchaFailedEarly ==
  Response(400, "false", "absent", <<"Failed reCAPTCHA verification">>)

PostAppointmentsEarly(r, body) ==
  /\ variant = "early"
  /\ Free(r)
  /\ IF tokenMissing(body)
       THEN slots' = [slots EXCEPT ![r] =
                        [IntakeRequest(body) EXCEPT !.pc = "done",
                                                    !.resp = RecaptchaRequiredEarly]]
       ELSE slots' = [slots EXCEPT ![r] =
                        [IntakeRequest(body) EXCEPT !.pc = "verify", !.calls = 1]]
  /\ UNCHANGED <<variant, adminToken, store, inserted, now, hits>>

RecaptchaAnswerEarly(r, answer) ==
  /\ variant = "early"
  /\ slots[r].pc = "verify"
  /\ LET request == [slots[r] EXCEPT !.recaptcha = answer]
         out == IF answer = "throw" THEN Outcome(Failed500, <<>>, <<>>, "AxiosError")
                ELSE IF verificationFailed(answer)
                  THEN Outcome(RecaptchaFailedEarly, <<>>, <<>>, "none")
                ELSE intakeEarly(request.body, NextId, now)
     IN Apply(r, request, out)
  /\ UNCHANGED <<variant, adminToken, now, hits>>

\* Time passes
Tick ==
  /\ \E i \in 1..Min(MaxClock, Len(TimeLine) - 1) :
        now = TimeLine[i] /\ now' = TimeLine[i + 1]
  /\ UNCHANGED <<variant, adminToken, store, inserted, slots, hits>>

(***************************************************************************)
(* The admin guard and the five moderation routes of the "admin" build     *)
(* (server.js 299-447).                                                    *)
(***************************************************************************)
Bearer == "Bearer "

\* `${process.env.ADMIN_TOKEN}`
templateOf(x) == IF x.t = "undefined" THEN <<"undefined">> ELSE x.v

\* (only the presence of the header is tested)
unauthorized_PresenceOnly(hdr, token) == ~Truthy(hdr)

\* !req.headers.authorization ||
\*   req.headers.authorization !== `Bearer ${process.env.ADMIN_TOKEN}`
unauthorized(hdr, token) == ~Truthy(hdr) \/ hdr.v # <<Bearer>> \o templateOf(token)

Headers ==
  {Undef, Str(<<Bearer>> \o Secret), Str(<<Bearer, "wrong">>), Str(Secret),
   Str(<<Bearer, "undefined">>)}

Unauthorized == Response(401, "absent", "absent", <<"Unauthorized">>)
NotFound == Response(404, "absent", "absent", <<"Appointment not found">>)
Failure(message) == Response(500, "absent", "absent", <<message>>)

ModerationRequest(op, hdr, param) ==
  [IdleSlot EXCEPT !.op = op, !.hdr = hdr, !.param = param]

\* The handler answers before any await
Answer(r, request, resp) ==
  /\ slots' = [slots EXCEPT ![r] = [request EXCEPT !.pc = "done", !.resp = resp]]
  /\ UNCHANGED <<variant, adminToken, store, inserted, now, hits>>

\* The handler issues the store operation op on args and awaits it
Await(r, request, op, args) ==
  /\ slots' = [slots EXCEPT ![r] = [request EXCEPT !.pc = "store", !.ops = <<op>>,
                                                  !.args = args]]
  /\ UNCHANGED <<variant, adminToken, store, inserted, now, hits>>

\* The orders .sort({ createdAt: -1 }) may give the documents of S in: latest
\* first, documents of the same instant in any order
SortedDesc(S) ==
  {q \in [1..Cardinality(S) -> S] :
     /\ \A i, j \in 1..Cardinality(S) : i # j => q[i] # q[j]
     /\ \A i, j \in 1..Cardinality(S) : i < j => Before(q[j].createdAt, q[i].createdAt)}

\* find({ createdAt: { $gte: startDate, $lte: endDate } })
findBetween(coll, startDate, endDate) ==
  {d \in coll : Before(startDate, d.createdAt) /\ Before(d.createdAt, endDate)}

Listing(q) == [Response(200, "absent", "absent", <<>>) EXCEPT !.shape = "array", !.data = q]

\* GET /api/appointments, up to await Appointment.find().sort(...)
GetAppointments(r, hdr) ==
  /\ variant = "admin"
  /\ Free(r)
  /\ LET request == ModerationRequest("list", hdr, <<>>)
     IN IF unauthorized(hdr, adminToken) THEN Answer(r, request, Unauthorized)
        ELSE Await(r, request, "find", <<>>)

Today == <<"t","o","d","a","y">>
Week == <<"w","e","e","k">>
Month == <<"m","o","n","t","h">>
Year == <<"y","e","a","r">>
\* The names asked for: the four of the switch and one it does not know
Timeframes == {Today, Week, Month, Year, <<"d","e","c","a","d","e">>}

\* switch (timeframe)
startDateOf(timeframe, t) ==
  IF timeframe = Today THEN startOfDay(t)
  ELSE IF timeframe = Week THEN weekBack(t)
  ELSE IF timeframe = Month THEN monthBack(t)
  ELSE yearBack(t)

InvalidTimeframe ==
  Response(400, "absent", "absent", <<"Invalid timeframe. Use today, week, month, or year">>)

\* GET /api/appointments/:timeframe, up to await Appointment.find(...)
GetByTimeframe(r, hdr, timeframe) ==
  /\ variant = "admin"
  /\ Free(r)
  /\ LET request == ModerationRequest("timeframe", hdr, <<timeframe>>)
     IN IF unauthorized(hdr, adminToken) THEN Answer(r, request, Unauthorized)
        ELSE IF timeframe \notin {Today, Week, Month, Year}
          THEN Answer(r, request, InvalidTimeframe)
        ELSE Await(r, request, "find", <<startDateOf(timeframe, now), now>>)

Day1 == <<"2","0","2","5","-","0","3","-","0","2">>
Day2 == <<"2","0","2","5","-","0","3","-","3","1">>
\* the last day a Date can hold: its first instant is the last time value
LastDay == <<"+","2","7","5","7","6","0","-","0","9","-","1","3">>
\* The ranges asked for: a month, the same with its start in the short form,
\* an empty range, a range up to the last day, and ranges with an end that
\* is no date
DateRanges ==
  {<<Day1, Day2>>, <<ShortDate, Day2>>, <<Day2, Day1>>, <<Day1, LastDay>>,
   <<NotADay, Day2>>, <<Day1, NotADay>>}

InvalidDate ==
  Response(400, "absent", "absent", <<"Invalid date format. Use YYYY-MM-DD">>)

\* GET /api/appointments/custom/:start/:end, up to await Appointment.find(...)
GetByCustomRange(r, hdr, start, end) ==
  /\ variant = "admin"
  /\ Free(r)
  /\ LET request == ModerationRequest("custom", hdr, <<start, end>>)
         Between(startDate, endDate) ==
           IF ~startDate.ok \/ ~endDate.ok
             THEN Answer(r, request, InvalidDate)
           ELSE Await(r, request, "find", <<startDate.t, endOfDay(endDate.t)>>)
     IN IF unauthorized(hdr, adminToken) THEN Answer(r, request, Unauthorized)
        ELSE Between(newDate(start), newDate(end))

\* await Appointment.find(...).sort({ createdAt: -1 }) settles and the handler
\* sends the documents.  A bound of the range that is no time value (the end
\* of the last day a Date can hold) fails the cast of the query.
FindSettles(r, dbOk) ==
  /\ slots[r].pc = "store"
  /\ slots[r].ops = <<"find">>
  /\ LET args == slots[r].args
         found == IF args = <<>> THEN store ELSE findBetween(store, args[1], args[2])
     IN IF args # <<>> /\ ~IsTimeValue(args[2])
          THEN Settle(r, Failure("Failed to fetch appointments"), "CastError", store)
        ELSE IF ~dbOk
          THEN Settle(r, Failure("Failed to fetch appointments"), "Error", store)
        ELSE \E q \in SortedDesc(found) :
               Settle(r, IF slots[r].op = "custom"
                           THEN [Response(200, "absent", "absent", <<>>)
                                   EXCEPT !.count = Len(q), !.data = q]
                           ELSE Listing(q),
                      "none", store)

\* The ids asked for: those of the documents built, one more, and a text
\* that is no ObjectId
IdParams == {ObjectIdOf(i) : i \in 1..(MaxInserts + 1)} \cup {<<"a","b","c">>}

\* The document after the update u, cast against the schema, is applied
applyUpdate(d, u) ==
  LET c == castUpdate(u)
      Val(p) == IF p \in DOMAIN c THEN c[p] ELSE d[p]
  IN [id |-> d.id, name |-> Val("name"), email |-> Val("email"), phone |-> Val("phone"),
      date |-> Val("date"), service |-> Val("service"), message |-> Val("message"),
      language |-> Val("language"), createdAt |-> Val("createdAt"),
      status |-> Val("status")]

\* { status: 'confirmed' }
confirmUpdate == [status |-> Str(Confirmed)]

\* PUT /api/appointments/:id/confirm, up to await findByIdAndUpdate(...)
ConfirmAppointment(r, hdr, id) ==
  /\ variant = "admin"
  /\ Free(r)
  /\ LET request == ModerationRequest("confirm", hdr, <<id>>)
     IN IF unauthorized(hdr, adminToken) THEN Answer(r, request, Unauthorized)
        ELSE Await(r, request, "findByIdAndUpdate", <<>>)

\* await Appointment.findByIdAndUpdate(id, { status: 'confirmed' },
\* { new: true }) settles and the handler sends its response
UpdateSettles(r, dbOk) ==
  /\ slots[r].pc = "store"
  /\ slots[r].ops = <<"findByIdAndUpdate">>
  /\ LET id == slots[r].param[1]
         found == {d \in store : d.id = id}
     IN IF ~isValidObjectId(id)
          THEN Settle(r, Failure("Failed to confirm appointment"), "CastError", store)
        ELSE IF ~dbOk
          THEN Settle(r, Failure("Failed to confirm appointment"), "Error", store)
        ELSE IF found = {} THEN Settle(r, NotFound, "none", store)
        ELSE LET d == CHOOSE d \in found : TRUE
                 updatedAppointment == applyUpdate(d, confirmUpdate)
             IN Settle(r, [Response(200, "absent", "absent", <<>>)
                             EXCEPT !.data = <<updatedAppointment>>],
                       "none", (store \ {d}) \cup {updatedAppointment})

Deleted == Response(200, "absent", "absent", <<"Appointment deleted successfully">>)

\* (nothing is removed)
findByIdAndDelete_KeepsAll(coll, id) == coll

\* The collection after Appointment.findByIdAndDelete(id)
findByIdAndDelete(coll, id) == {d \in coll : d.id # id}

\* DELETE /api/appointments/:id, up to await findByIdAndDelete(...)
DeleteAppointment(r, hdr, id) ==
  /\ variant = "admin"
  /\ Free(r)
  /\ LET request == ModerationRequest("delete", hdr, <<id>>)
     IN IF unauthorized(hdr, adminToken) THEN Answer(r, request, Unauthorized)
        ELSE Await(r, request, "findByIdAndDelete", <<>>)

\* await Appointment.findByIdAndDelete(id) settles and the handler sends its
\* response
DeleteSettles(r, dbOk) ==
  /\ slots[r].pc = "store"
  /\ slots[r].ops = <<"findByIdAndDelete">>
  /\ LET id == slots[r].param[1]
         found == {d \in store : d.id = id}
     IN IF ~isValidObjectId(id)
          THEN Settle(r, Failure("Failed to delete appointment"), "CastError", store)
        ELSE IF ~dbOk
          THEN Settle(r, Failure("Failed to delete appointment"), "Error", store)
        ELSE IF found = {} THEN Settle(r, NotFound, "none", store)
        ELSE Settle(r, Deleted, "none", findByIdAndDelete(store, id))

\* POST /api/appointments of the "admin" build, up to the save
PostAppointmentsAdmin(r, body) ==
  /\ variant = "admin"
  /\ Free(r)
  /\ Apply(r, IntakeRequest(body), intakeAdmin(body, NextId, now))
  /\ UNCHANGED <<variant, adminToken, now, hits>>

(***************************************************************************)
(* The "limited" build (part_001): express-rate-limit in front of          *)
(* /api/appointments, keyed by the client address.                         *)
(***************************************************************************)
TooMany ==
  [Response(429, "absent", "absent",
            <<"Too many submissions from this IP, please try again later">>)
     EXCEPT !.shape = "text"]

\* The requests a key may send in the model
HitsCap(key) == IF key = "ip1" THEN LimiterMax + MaxOverLimit ELSE MaxOtherHits

\* (the limit is reached one request early)
overLimit_OffByOne(count) == count >= LimiterMax

\* The limiter counts the request, then rejects it or passes it on
overLimit(count) == count > LimiterMax

\* The count of the key after this request, taken in one step
increment(count) == count + 1

\* The limiter, and behind it the handler up to the save: other requests
\* pass the limiter while this one waits on the store
PostAppointmentsLimited(r, key, body) ==
  /\ variant = "limited"
  /\ Free(r)
  /\ hits[key] < HitsCap(key)
  /\ hits' = [hits EXCEPT ![key] = increment(@)]
  /\ LET request == [IntakeRequest(body) EXCEPT !.key = key]
     IN IF overLimit(hits'[key])
          THEN Apply(r, request, Outcome(TooMany, <<>>, <<>>, "none"))
          ELSE Apply(r, request, intakeLimited(body, NextId, now))
  /\ UNCHANGED <<variant, adminToken, now>>

\* The paths of the moderation operations, as this build receives them
ModerationPaths ==
  {[op |-> "list", method |-> "GET", param |-> <<>>],
   [op |-> "confirm", method |-> "PUT", param |-> <<ObjectIdOf(1)>>]}

\* Express's answer when no route matches: POST /api/appointments is the only
\* route of this build
CannotRoute(method) ==
  [Response(404, "absent", "absent", <<"Cannot ", method>>) EXCEPT !.shape = "html"]

\* Any other request under /api/appointments: app.use mounts the limiter on
\* the path prefix, for every method, so the request is counted and then
\* rejected by the limiter or left without a route
OtherRequestLimited(r, key, path) ==
  /\ variant = "limited"
  /\ Free(r)
  /\ hits[key] < HitsCap(key)
  /\ hits' = [hits EXCEPT ![key] = increment(@)]
  /\ LET request == [ModerationRequest(path.op, Str(<<Bearer>> \o Secret), path.param)
                      EXCEPT !.key = key]
     IN IF overLimit(hits'[key])
          THEN Apply(r, request, Outcome(TooMany, <<>>, <<>>, "none"))
          ELSE Apply(r, request, Outcome(CannotRoute(path.method), <<>>, <<>>, "none"))
  /\ UNCHANGED <<variant, adminToken, now>>

\* The bodies sent to the build with the limiter: one the handler accepts
\* and one it rejects
LimitedBodies == {BaseBody, [BaseBody EXCEPT !.name = Undef]}

\* The 15-minute window elapses and the counts start again
WindowElapsed ==
  /\ variant = "limited"
  /\ \E k \in Keys : hits[k] > 0
  /\ hits' = [k \in Keys |-> 0]
  /\ UNCHANGED <<variant, adminToken, store, inserted, now, slots>>

NextCaptcha ==
  \/ \E r \in Slots, body \in Bodies : PostAppointments(r, body)
  \/ \E r \in Slots, answer \in RecaptchaAnswers : RecaptchaAnswer(r, answer)
  \/ \E r \in Slots, body \in Bodies : PostAppointmentsEarly(r, body)
  \/ \E r \in Slots, answer \in RecaptchaAnswers : RecaptchaAnswerEarly(r, answer)
  \/ \E r \in Slots, answer \in SaveAnswers : SaveSettles(r, answer)
  \/ Tick

NextAdmin ==
  \/ \E r \in Slots, hdr \in Headers : GetAppointments(r, hdr)
  \/ \E r \in Slots, hdr \in Headers, timeframe \in Timeframes :
       GetByTimeframe(r, hdr, timeframe)
  \/ \E r \in Slots, hdr \in Headers, range \in DateRanges :
       GetByCustomRange(r, hdr, range[1], range[2])
  \/ \E r \in Slots, hdr \in Headers, id \in IdParams :
       ConfirmAppointment(r, hdr, id)
  \/ \E r \in Slots, hdr \in Headers, id \in IdParams :
       DeleteAppointment(r, hdr, id)
  \/ \E r \in Slots, body \in SmallBodies : PostAppointmentsAdmin(r, body)
  \/ \E r \in Slots, answer \in SaveAnswers : SaveSettles(r, answer)
  \/ \E r \in Slots, dbOk \in BOOLEAN : FindSettles(r, dbOk)
  \/ \E r \in Slots, dbOk \in BOOLEAN : UpdateSettles(r, dbOk)
  \/ \E r \in Slots, dbOk \in BOOLEAN : DeleteSettles(r, dbOk)
  \/ Tick

NextLimited ==
  \/ \E r \in Slots, key \in Keys, body \in LimitedBodies :
       PostAppointmentsLimited(r, key, body)
  \/ \E r \in Slots, answer \in SaveAnswers : SaveSettles(r, answer)
  \/ \E r \in Slots, key \in Keys, path \in ModerationPaths :
       OtherRequestLimited(r, key, path)
  \/ WindowElapsed
  \/ Tick

Next == NextCaptcha \/ NextAdmin \/ NextLimited

NextStrict ==
  \/ \E r \in Slots, body \in Bodies : PostAppointments(r, body)
  \/ \E r \in Slots, answer \in RecaptchaAnswers : RecaptchaAnswer(r, answer)
  \/ \E r \in Slots, answer \in SaveAnswers : SaveSettles(r, answer)
  \/ Tick

InitStrict == Init /\ variant = "captcha"
InitCaptcha == Init /\ variant \in {"captcha", "early"}

InitAdmin == Init /\ variant = "admin"
InitLimited == Init /\ variant = "limited"

Spec == Init /\ [][Next]_vars
SpecCaptcha == InitCaptcha /\ [][NextCaptcha]_vars
SpecStrict == InitStrict /\ [][NextStrict]_vars
SpecAdmin == InitAdmin /\ [][NextAdmin]_vars
SpecLimited == InitLimited /\ [][NextLimited]_vars

\* The gated builds with time that keeps passing. The verification call is
\* made without a timeout, so the step that resumes a suspended handler is the
\* verifier's to take: nothing obliges it, and no step of the handler itself
\* ends the wait.
SpecCaptchaFair == InitCaptcha /\ [][NextCaptcha]_vars /\ WF_vars(Tick)

(***************************************************************************)
(* Properties.                                                             *)
(***************************************************************************)
\* Slot r sends a response in this step: at once on arrival, or on being
\* resumed from an await
Handled(r) == slots'[r] # slots[r] /\ slots'[r].pc = "done"
\* A request arrives in slot r in this step
Arrives(r) == slots'[r] # slots[r] /\ ~Suspended(slots[r])
\* The verification call of the request in slot r settles in this step
Resumed(r) == slots[r].pc = "verify" /\ slots'[r].pc # "verify"
\* Slot r is resumed in this step from its await on the store
Settled(r) == slots[r].pc = "store" /\ slots'[r].pc = "done"

GatedBuild == variant \in {"captcha", "early"}

\* The response is the rejection named kind with the message text; the
\* "early" build sends the same status and message without an error property
Rejection(resp, status, kind, text) ==
  /\ resp.status = status
  /\ resp.success = "false"
  /\ resp.message = <<text>>
  /\ resp.error = IF variant = "captcha" THEN kind ELSE "absent"

\* C1: in the builds with a reCAPTCHA gate, the collection changes only in a
\* step in which the save of an intake request settles whose verification
\* call the verifier had answered with "success", and the one document added
\* is the one that request built; a request resumed by the answer "failure"
\* is answered 400 RECAPTCHA_FAILED at once, issues no store operation and
\* leaves the collection as it was.
C1_StoredOnlyAfterVerification ==
  [][GatedBuild =>
       /\ store' # store =>
            \E r \in Slots :
              /\ Settled(r)
              /\ slots[r].op = "intake"
              /\ slots[r].recaptcha = "success"
              /\ slots[r].calls = 1
              /\ slots'[r].body = slots[r].body
              /\ slots'[r].resp.status = 201
              /\ store' = store \cup {slots[r].args[1]}
       /\ \A r \in Slots :
            Resumed(r) /\ slots'[r].recaptcha = "failure" =>
              /\ slots'[r].pc = "done"
              /\ Rejection(slots'[r].resp, 400, "RECAPTCHA_FAILED",
                           "Failed reCAPTCHA verification")
              /\ slots'[r].ops = <<>>
              /\ store' = store]_vars

C1_Witness ==
  \E r \in Slots :
    /\ GatedBuild
    /\ slots[r].pc = "done" /\ slots[r].op = "intake"
    /\ slots[r].recaptcha = "success"
    /\ slots[r].resp.status = 201
    /\ \E d \in store : d.email = Str(toLowerCase(slots[r].body.email.v))

\* C2: in the builds with a reCAPTCHA gate, an intake request whose body has
\* no recaptchaToken (undefined or the empty string) is answered at once with
\* 400 and the error RECAPTCHA_REQUIRED: no verification call is issued for
\* it, its handler builds no document and issues no store operation, and the
\* collection is as before, whatever the other fields of the body are.
C2_NoTokenNoCallNoStore ==
  [][\A r \in Slots :
       ( /\ GatedBuild
         /\ Arrives(r)
         /\ slots'[r].op = "intake"
         /\ slots'[r].body.recaptchaToken \in {Undef, Str(<<>>)} ) =>
         /\ slots'[r].pc = "done"
         /\ slots'[r].resp.status = 400
         /\ slots'[r].resp.success = "false"
         /\ slots'[r].resp.error = "RECAPTCHA_REQUIRED"
         /\ slots'[r].resp.message = <<"reCAPTCHA verification required">>
         /\ slots'[r].calls = 0
         /\ slots'[r].recaptcha = "none"
         /\ slots'[r].ops = <<>>
         /\ store' = store /\ inserted' = inserted]_vars

ModerationOps == {"list", "timeframe", "custom", "confirm", "delete"}

\* The header is not the bearer credential of the configured operator secret.
\* With no secret configured the text "Bearer undefined" is left aside here:
\* that case is the subject of C24.
NoCredential(hdr) ==
  \/ hdr.t = "undefined"
  \/ hdr.v = <<>>
  \/ /\ adminToken.t = "string"
     /\ (Len(hdr.v) # 2 \/ hdr.v[1] # "Bearer " \/ <<hdr.v[2]>> # adminToken.v)
  \/ /\ adminToken.t = "undefined"
     /\ hdr.v # <<"Bearer ", "undefined">>

\* C3: each of the five moderation routes answers a request whose
\* Authorization header is missing, malformed or not 'Bearer <operator
\* secret>' with 401 as it arrives; its handler issues no store operation,
\* sends no document, and the collection is the same after as before.
C3_NoCredentialNoStoreAccess ==
  [][\A r \in Slots :
       (Arrives(r) /\ slots'[r].op \in ModerationOps /\ NoCredential(slots'[r].hdr)) =>
         /\ slots'[r].pc = "done"
         /\ slots'[r].resp.status = 401
         /\ slots'[r].resp.message = <<"Unauthorized">>
         /\ slots'[r].resp.data = <<>>
         /\ slots'[r].ops = <<>>
         /\ store' = store]_vars

C3_Witness ==
  \E r \in Slots :
    /\ slots[r].pc = "done" /\ slots[r].op = "delete"
    /\ adminToken = Str(Secret)
    /\ slots[r].hdr = Str(<<"Bearer ", "wrong">>)
    /\ \E d \in store : d.id = slots[r].param[1]
    /\ slots[r].resp.status = 401

\* C8: with the limiter mounted, a request that is at most the 50th of its
\* client key in the window is passed on to the intake handler, which rejects
\* it or builds its document and, once the save has settled, answers it; the
\* 51st and every later one is answered 429 by the limiter, with no document
\* built, no store operation and the collection unchanged, whatever its
\* body; and the count of the other client key is not touched.
C8_FiftyPerWindow ==
  [][\A r \in Slots :
       /\ (variant = "limited" /\ Arrives(r) /\ slots'[r].op = "intake") =>
            LET k == slots'[r].key
                nth == hits[k] + 1
            IN /\ hits'[k] = nth
               /\ \A o \in Keys \ {k} : hits'[o] = hits[o]
               /\ store' = store
               /\ nth <= 50 =>
                    \/ slots'[r].pc = "done" /\ slots'[r].resp.status \in {400, 500}
                    \/ slots'[r].pc = "store" /\ slots'[r].ops = <<"save">>
               /\ nth > 50 =>
                    /\ slots'[r].pc = "done"
                    /\ slots'[r].resp.status = 429
                    /\ slots'[r].ops = <<>>
                    /\ inserted' = inserted
       /\ (variant = "limited" /\ Settled(r)) =>
            /\ slots'[r].resp.status \in {201, 500}
            /\ slots'[r].resp.status = 201 <=> store' # store
            /\ hits' = hits]_vars

C8_Witness ==
  \E r \in Slots :
    /\ variant = "limited"
    /\ slots[r].pc = "done" /\ slots[r].key = "ip1" /\ slots[r].body = BaseBody
    /\ hits["ip1"] = 51 /\ hits["ip2"] = 1
    /\ slots[r].resp.status = 429

\* Slot r answers in this step a request that has passed the reCAPTCHA gate
PassedGate(r) == Handled(r) /\ slots'[r].recaptcha = "success"

SixLanguages ==
  {<<"v","i","e","t","n","a","m","e","s","e">>, <<"e","n","g","l","i","s","h">>,
   <<"s","i","m","p","l","i","f","i","e","d">>, <<"t","r","a","d","i","t","i","o","n","a","l">>,
   <<"f","r","e","n","c","h">>, <<"k","o","r","e","a","n">>}

NonEmpty(x) == x.t = "string" /\ Len(x.v) > 0

\* local@domain.tld: no white space, one '@' with text before it, and a '.'
\* after the '@' with text on both sides
HasEmailShape(s) ==
  /\ \A i \in 1..Len(s) : ~IsSpace(s[i])
  /\ \E a \in 2..Len(s) :
       /\ s[a] = "@"
       /\ \A i \in 1..Len(s) : s[i] = "@" => i = a
       /\ \E i \in (a + 2)..(Len(s) - 1) : s[i] = "."

\* C4: every stored record has non-empty name, email and phone, an email
\* that is lower-case and has the shape local@domain.tld, and a language that
\* is one of the six enumerated values.
C4_StoredRecordsWellFormed ==
  \A d \in store :
    /\ NonEmpty(d.name) /\ NonEmpty(d.email) /\ NonEmpty(d.phone)
    /\ d.email.v = toLowerCase(d.email.v)
    /\ HasEmailShape(d.email.v)
    /\ d.language.t = "string" /\ d.language.v \in SixLanguages

\* The fields a MISSING_FIELDS response names
NamedFields(resp) ==
  IF Len(resp.message) > 0 /\ resp.message[1] = "Missing required fields: "
    THEN {resp.message[i] : i \in 2..Len(resp.message)} \ {", "}
    ELSE {}

Lacking(body) ==
  {f \in {"name", "phone", "email", "language"} :
     body[f].t = "undefined" \/ body[f] = Str(<<>>)}

\* C5: an intake request that has passed the reCAPTCHA gate and lacks one or
\* more of name, phone, email and language is answered 400 with exactly the
\* lacking fields named, and nothing is persisted.
C5_MissingFieldsNamedExactly ==
  [][\A r \in Slots :
       (PassedGate(r) /\ Lacking(slots'[r].body) # {}) =>
         /\ slots'[r].resp.status = 400
         /\ NamedFields(slots'[r].resp) = Lacking(slots'[r].body)
         /\ store' = store]_vars

HasNoAt(s) == \A i \in 1..Len(s) : s[i] # "@"
HasNoDotAfterAt(s) ==
  \E a \in 1..Len(s) : s[a] = "@" /\ \A i \in (a + 1)..Len(s) : s[i] # "."
HasSpace(s) == \E i \in 1..Len(s) : IsSpace(s[i])

\* C6: an intake request that has passed the reCAPTCHA gate and has name and
\* phone, and whose email has no '@', no '.' after the '@', or white space,
\* is answered 400 INVALID_EMAIL and nothing is persisted (the database
\* being reachable).
C6_InvalidEmailRejected ==
  [][\A r \in Slots :
       LET body == slots'[r].body
       IN ( /\ PassedGate(r)
            /\ slots'[r].caught # "Error"
            /\ NonEmpty(body.name) /\ NonEmpty(body.phone)
            /\ body.email.t = "string"
            /\ HasNoAt(body.email.v) \/ HasNoDotAfterAt(body.email.v)
                 \/ HasSpace(body.email.v) ) =>
            /\ slots'[r].resp.status = 400
            /\ slots'[r].resp.error = "INVALID_EMAIL"
            /\ store' = store]_vars

\* The body gives the field a value, and not the empty text
Supplied(x) == x.t # "undefined" /\ x # Str(<<>>)

\* C7: in the build that validates the email, an intake request that has
\* passed the reCAPTCHA gate, gives name and phone and an email of the shape
\* local@domain.tld, and whose language is supplied and is not one of the six
\* values, is answered 400 and nothing is persisted, whatever its other
\* fields are and whether or not the database is reachable.
C7_InvalidLanguageRejected ==
  [][\A r \in Slots :
       LET body == slots'[r].body
       IN ( /\ PassedGate(r)
            /\ Supplied(body.name) /\ Supplied(body.phone)
            /\ body.email.t = "string" /\ HasEmailShape(body.email.v)
            /\ body.language.t = "string"
            /\ body.language.v \notin SixLanguages ) =>
            /\ slots'[r].resp.status = 400
            /\ slots'[r].resp.success = "false"
            /\ store' = store]_vars

BearerSecret == Str(<<"Bearer ">> \o Secret)

\* Slot r answers in this step an authorized request op that the store
\* answered
Authorized(r, op) ==
  /\ Settled(r)
  /\ slots'[r].op = op
  /\ adminToken = Str(Secret)
  /\ slots'[r].hdr = BearerSecret
  /\ slots'[r].caught # "Error"

AuthorizedConfirm(r) == Authorized(r, "confirm")

IsConfirmed(d) == d.status = Str(Confirmed)

\* C9: after an authorized confirm(id) on an existing record, the stored
\* record and the record in the response both have status 'confirmed'; and a
\* record has status 'confirmed' only from such a confirm: no other step,
\* intake with a status field in the body included, makes a record confirmed.
C9_ConfirmSetsStatus ==
  [][/\ \A r \in Slots :
          (AuthorizedConfirm(r) /\ \E d \in store : d.id = slots'[r].param[1]) =>
            /\ slots'[r].resp.status = 200
            /\ Len(slots'[r].resp.data) = 1
            /\ slots'[r].resp.data[1].id = slots'[r].param[1]
            /\ IsConfirmed(slots'[r].resp.data[1])
            /\ \E d \in store' : d.id = slots'[r].param[1] /\ IsConfirmed(d)
     /\ \A d \in store' :
          (IsConfirmed(d) /\ ~\E e \in store : e.id = d.id /\ IsConfirmed(e)) =>
            \E r \in Slots : AuthorizedConfirm(r) /\ slots'[r].param[1] = d.id
                               /\ slots'[r].resp.status = 200]_vars

\* C10: an authorized confirm(id) whose id matches no stored record, whatever
\* the form of the id, is answered 404 and leaves the collection unchanged.
C10_ConfirmUnknownId ==
  [][\A r \in Slots :
       (AuthorizedConfirm(r) /\ ~\E d \in store : d.id = slots'[r].param[1]) =>
         /\ slots'[r].resp.status = 404
         /\ store' = store]_vars

\* C11: an authorized confirm(id) of an existing record that the store
\* answers succeeds with 200 and leaves the record with status 'confirmed';
\* and such a confirm of a record that is confirmed already (a second call)
\* succeeds with 200 as well and leaves the store as it found it.
C11_ConfirmIdempotent ==
  [][\A r \in Slots :
       (AuthorizedConfirm(r) /\ \E d \in store : d.id = slots'[r].param[1]) =>
         /\ slots'[r].resp.status = 200
         /\ \E d \in store' : d.id = slots'[r].param[1] /\ IsConfirmed(d)
         /\ (\E d \in store : d.id = slots'[r].param[1] /\ IsConfirmed(d)) =>
              store' = store]_vars

\* The id was given to a document that is in the collection no more and is not
\* waiting to be saved either: ids are given out in the order the documents
\* are built
Gone(id) ==
  /\ \E n \in 1..inserted : id = ObjectIdOf(n)
  /\ ~\E d \in store : d.id = id
  /\ ~\E q \in DOMAIN slots :
        slots[q].pc = "store" /\ slots[q].ops = <<"save">> /\ slots[q].args[1].id = id

\* it then saves, whatever createdAt the request body carries; the record
\* enters the collection with that value, and no later step (confirm, delete
\* of another record, any read, another intake) changes the createdAt of a
\* record that stays in the collection.
C13_CreatedAtSetOnceByServer ==
  [][/\ \A r \in Slots :
          (slots'[r] # slots[r] /\ slots'[r].pc = "store" /\ slots'[r].ops = <<"save">>) =>
            /\ slots'[r].args[1].createdAt = now
            /\ slots'[r].body.createdAt.t = "string" =>
                 slots'[r].args[1].createdAt # parseDate(slots'[r].body.createdAt.v)
     /\ \A d \in store' :
          (~\E e \in store : e.id = d.id) =>
            \E r \in Slots : Settled(r) /\ slots[r].ops = <<"save">> /\ d = slots[r].args[1]
     /\ \A d \in store', e \in store :
          e.id = d.id => d.createdAt = e.createdAt]_vars

C13_Witness ==
  \E r \in Slots :
    /\ slots[r].pc = "done" /\ slots[r].op = "intake"
    /\ slots[r].body.createdAt = Str(Date1)
    /\ slots[r].resp.status = 201
    /\ now = TimeLine[2]
    /\ \E d, e \in store :
         /\ d.id = ObjectIdOf(1) /\ d.createdAt = TimeLine[1]
         /\ e.id = ObjectIdOf(2) /\ e.createdAt = TimeLine[2] /\ e = slots[r].args[1]

\* C14: in the builds with a reCAPTCHA gate, an intake request whose
\* verification call fails (the call throws) is answered 502 with error
\* RECAPTCHA_SERVICE_ERROR and nothing is persisted; and no intake request
\* issues more than one verification call.
C14_VerifierFailureIs502 ==
  [][\A r \in Slots :
       /\ (Resumed(r) /\ slots'[r].recaptcha = "throw") =>
            /\ slots'[r].pc = "done"
            /\ slots'[r].resp.status = 502
            /\ slots'[r].resp.error = "RECAPTCHA_SERVICE_ERROR"
            /\ store' = store
       /\ slots'[r].calls <= 1]_vars

ValidText(x) == x.t = "string" /\ trim(x.v) # <<>>

\* name, phone, email and language of the body are acceptable
OtherwiseValid(body) ==
  /\ ValidText(body.name) /\ ValidText(body.phone)
  /\ body.email.t = "string" /\ HasEmailShape(body.email.v)
  /\ body.language.t = "string" /\ body.language.v \in SixLanguages

\* The documents this step adds to the collection
Added == {d \in store' : ~\E e \in store : e.id = d.id}

\* C15: an intake request that has passed the reCAPTCHA gate, is valid in
\* name, phone, email and language and has no date is answered 201 and
\* stored with no date (the database being reachable); and a request stored
\* without a service in its body is stored with service 'General Checkup'.
C15_DateOptionalServiceDefault ==
  [][\A r \in Slots :
       (PassedGate(r) /\ slots'[r].caught # "Error" /\ OtherwiseValid(slots'[r].body)) =>
         /\ slots'[r].body.date.t = "undefined" =>
              /\ slots'[r].resp.status = 201
              /\ \E d \in Added : d.date.t = "undefined"
         /\ (slots'[r].body.service.t = "undefined" /\ slots'[r].resp.status = 201) =>
              \E d \in Added : d.service = Str(GeneralCheckup)]_vars

\* C16: an intake request that has passed the reCAPTCHA gate, is valid in
\* name, phone, email and date, and whose language is one of the six values
\* up to letter case is answered 201 and stored with the lower-case value
\* (the database being reachable).
C16_LanguageCaseInsensitive ==
  [][\A r \in Slots :
       LET body == slots'[r].body
       IN ( /\ PassedGate(r) /\ slots'[r].caught # "Error"
            /\ ValidText(body.name) /\ ValidText(body.phone)
            /\ body.email.t = "string" /\ HasEmailShape(body.email.v)
            /\ body.date.t = "string" /\ IsDateString(body.date.v)
            /\ body.language.t = "string"
            /\ toLowerCase(body.language.v) \in SixLanguages ) =>
            /\ slots'[r].resp.status = 201
            /\ \E d \in Added : d.language = Str(toLowerCase(body.language.v))]_vars

daysBack(t, n) == Instant(t.day - n, t.ms)

\* The first instant of the window the timeframe names
WindowStart(timeframe, t) ==
  IF timeframe = Today THEN Instant(t.day, 0)
  ELSE IF timeframe = Week THEN daysBack(t, 7)
  ELSE IF timeframe = Month THEN daysBack(t, 30)
  ELSE daysBack(t, 365)

\* The response lists exactly the documents of S, each once, latest first
ListsExactly(data, S) ==
  /\ Len(data) = Cardinality(S)
  /\ {data[i] : i \in 1..Len(data)} = S
  /\ \A i, j \in 1..Len(data) : i < j => Before(data[j].createdAt, data[i].createdAt)

\* The request arriving in slot r carries the configured bearer credential
ArrivesAuthorized(r, op) ==
  /\ Arrives(r)
  /\ slots'[r].op = op
  /\ adminToken = Str(Secret)
  /\ slots'[r].hdr = BearerSecret

\* C17: an authorized timeframe request named today, week, month or year
\* queries the store for the window from its start to now, the window
\* starting at midnight of the current day, or exactly 7, 30 or 365 days
\* before now, and, when the store answers, returns exactly the stored
\* records with createdAt in that window, latest first; any other name is
\* answered 400 with no store query.
C17_TimeframeWindows ==
  [][\A r \in Slots :
       /\ ArrivesAuthorized(r, "timeframe") =>
            LET timeframe == slots'[r].param[1]
            IN IF timeframe \in {Today, Week, Month, Year}
                 THEN /\ slots'[r].pc = "store"
                      /\ slots'[r].args = <<WindowStart(timeframe, now), now>>
                 ELSE /\ slots'[r].pc = "done"
                      /\ slots'[r].resp.status = 400
                      /\ slots'[r].ops = <<>>
       /\ Authorized(r, "timeframe") =>
            /\ slots'[r].resp.status = 200
            /\ ListsExactly(slots'[r].resp.data,
                            {d \in store : /\ Before(slots[r].args[1], d.createdAt)
                                           /\ Before(d.createdAt, slots[r].args[2])})]_vars

\* The parameter names a calendar day
IsCalendarDate(s) == IsDateString(s) /\ parseDate(s).ms = 0

\* C18: an authorized custom-range request whose two parameters are calendar
\* dates queries the store for the range from the first instant of the start
\* day to the last instant (23:59:59.999) of the end day and, when the store
\* answers, returns exactly the stored records with createdAt in that range,
\* both ends included, latest first, with count equal to the number of
\* records returned; when either parameter is not a date the answer is 400
\* and no store query is made.
C18_CustomRange ==
  [][\A r \in Slots :
       /\ ArrivesAuthorized(r, "custom") =>
            LET start == slots'[r].param[1]
                end == slots'[r].param[2]
            IN /\ (IsCalendarDate(start) /\ IsCalendarDate(end)) =>
                    /\ slots'[r].pc = "store"
                    /\ slots'[r].args = <<Instant(parseDate(start).day, 0),
                                          Instant(parseDate(end).day, MsPerDay - 1)>>
               /\ (~IsDateString(start) \/ ~IsDateString(end)) =>
                    /\ slots'[r].pc = "done"
                    /\ slots'[r].resp.status = 400
                    /\ slots'[r].ops = <<>>
       /\ Authorized(r, "custom") =>
            /\ slots'[r].resp.status = 200
            /\ ListsExactly(slots'[r].resp.data,
                            {d \in store : /\ Before(slots[r].args[1], d.createdAt)
                                           /\ Before(d.createdAt, slots[r].args[2])})
            /\ slots'[r].resp.count = Len(slots'[r].resp.data)]_vars

\* C19: every response of every endpoint, intake and moderation, success and
\* failure, is an object with a success indicator and a message, and every
\* error response (status 400 or above) has an error-kind tag as well.
C19_UniformResponses ==
  [][\A r \in Slots :
       Handled(r) =>
         /\ slots'[r].resp.shape = "object"
         /\ slots'[r].resp.success # "absent"
         /\ slots'[r].resp.message # <<>>
         /\ slots'[r].resp.status >= 400 => slots'[r].resp.error # "absent"]_vars

\* What the catch block received comes from the request itself: a value that
\* is not text, a document the schema rejects, a parameter that is no id
CausedByRequest(caught) == caught \in {"TypeError", "ValidationError", "CastError"}

\* C20: an intake request rejected because of its payload alone is answered
\* 400, and intake answers 500 only when the failure does not come from the
\* payload (the database or the verifier failing); a moderation request with
\* a bad timeframe, date or id is never answered 500.
C20_ClientErrorsAre400 ==
  [][\A r \in Slots :
       Handled(r) =>
         /\ (slots'[r].op = "intake" /\ CausedByRequest(slots'[r].caught)) =>
              slots'[r].resp.status = 400
         /\ slots'[r].resp.status = 500 => ~CausedByRequest(slots'[r].caught)]_vars

\* C21: a request to a moderation endpoint is never counted and never rejected
\* by the rate limiter: the step that answers it leaves every client key's
\* count as it was, and its answer is not the limiter's 429, however many
\* requests its key has sent in the window.
C21_LimiterSparesModeration ==
  [][\A r \in Slots :
       (Handled(r) /\ slots'[r].op \in ModerationOps) =>
         /\ hits' = hits
         /\ slots'[r].resp.status # 429]_vars

\* C24: a moderation request gets past the authorization check only when an
\* operator secret is configured and its Authorization header is 'Bearer '
\* followed by that secret; with no secret configured every moderation
\* request is answered 401 and does nothing on the store, whatever its header.
C24_NoSecretNoAccess ==
  [][\A r \in Slots :
       (Arrives(r) /\ slots'[r].op \in ModerationOps) =>
         /\ (slots'[r].pc # "done" \/ slots'[r].resp.status # 401) =>
              /\ adminToken.t = "string"
              /\ slots'[r].hdr = Str(<<Bearer>> \o adminToken.v)
         /\ adminToken = Undef =>
              /\ slots'[r].pc = "done"
              /\ slots'[r].resp.status = 401
              /\ slots'[r].ops = <<>>]_vars

\* C23: every intake request is answered: a handler suspended on the
\* verification call is resumed and sends its response, also when the
\* verifier stays silent.
C23_EveryIntakeAnswered ==
  \A r \in Slots : (slots[r].pc = "verify") ~> (slots[r].pc = "done")

====
